---- MODULE Spec2Model ----
(***************************************************************************)
(* Model of the extractive summarizer of ai-text-and-video-summarizer.     *)
(*                                                                         *)
(*   backend_api.py           summarize handler, textrank_summarize,      *)
(*                            calculate_optimal_summary_length,            *)
(*                            are_sentences_similar                        *)
(*   video_summarizer_api.py  create_segments_with_topics                  *)
(*                                                                         *)
(* A sentence is represented by the token sequence nltk's word_tokenize    *)
(* yields for it (words and punctuation marks, in order); a text is the    *)
(* sequence of sentences sent_tokenize yields for it after                 *)
(* preprocess_text_for_sentences and clean_text.  Python lists are         *)
(* 0-based, the sequences here are 1-based: index i here is index i-1 in   *)
(* the code.                                                               *)
(***************************************************************************)
EXTENDS Integers, Sequences, FiniteSets, TLC

VARIABLES
    pc,                 \* position inside the request being served
    text,               \* request text, as its sentence list
    max_sentences_value,\* the request's raw max_sentences field
    max_sentences,      \* the handler's parsed value: None or Some(n)
    ts_max_sentences,   \* textrank_summarize's local max_sentences (an integer)
    unique_sentences,   \* textrank_summarize: after duplicate removal
    filtered_sentences, \* textrank_summarize: after the quality filter
    sentence_scores,    \* textrank_summarize: index -> score, <<>> before scoring
    ranked_items,       \* textrank_summarize: indices by descending score
    pos,                \* position of the running for loop in ranked_items
    selected_indices,   \* textrank_summarize: indices in selection order
    strict_selected,    \* history: selected_indices when the strict pass ended
    rejected,           \* history: indices the strict pass found redundant
    summary,            \* the returned summary, as its sentence list
    response,           \* what the handler answers: "none", "ok", "error400", "error500"
    strategy,           \* which summarizer produced the summary: "none", "textrank", "transformer"
    window_size,        \* detect_topic_changes: the window_size argument
    transcript_segments,\* the transcript entries: [text, start]
    topic_changes,      \* detect_topic_changes: the low-similarity candidates
    topic_change_indices,\* the boundary list detect_topic_changes returns
    start_idx,          \* create_segments_with_topics: start of the running range
    bpos,               \* create_segments_with_topics: position in the boundary loop
    segments,           \* create_segments_with_topics: the segments emitted so far
    ranges,             \* history: the index range each emitted segment was built from
    est_num_sentences,  \* calculate_optimal_summary_length: len(sent_tokenize(text))
    est_num_words,      \* calculate_optimal_summary_length: len(text.split())
    bracket_target,     \* history: target_sentences after the word-count brackets
    target_sentences,   \* calculate_optimal_summary_length: the returned value
    fmt_tenths,         \* format_timestamp: the seconds argument, in tenths of a second
    timestamp,          \* format_timestamp: the returned string, as its fields' digits
    sentences,          \* summarize_segment: per sentence, its count of scored words
    seg_max_sentences,  \* summarize_segment: the max_sentences argument
    top_indices,        \* summarize_segment: the indices of the returned sentences
    method,             \* the request's method field
    USE_TRANSFORMER,    \* module global: whether the transformer model was loaded
    transformer_calls,  \* history: the calls of transformer_summarize, with their outcome
    textrank_calls,     \* history: the calls of textrank_summarize, with their arguments
    n_sentences,        \* calculate_sentence_importance: len(sentences)
    position_scores,    \* calculate_sentence_importance: position_scores, in tenths
    similarity_matrix,  \* calculate_sentence_importance: the matrix, entries in halves
    centrality,         \* calculate_sentence_importance: the power-iteration vector
    rounds,             \* history: the update rounds done so far
    centrality_scores,  \* calculate_sentence_importance: centrality_scores, in thousandths
    sim_sentences,      \* build_similarity_matrix: the sentences argument (token lists)
    sim_matrix,         \* build_similarity_matrix: the returned similarity_matrix
    request_counts,     \* backend_validation: the module-level dict, client -> timestamps
    limit,              \* check_rate_limit: the limit argument
    window,             \* check_rate_limit: the window argument
    clock,              \* what time.time() returns now
    accepted,           \* history: per client, the timestamps of its accepted calls
    calls               \* check_rate_limit: the calls under way, by thread

sumVars == <<text, max_sentences_value, max_sentences, ts_max_sentences,
             unique_sentences, filtered_sentences, sentence_scores, ranked_items,
             pos, selected_indices, strict_selected, rejected, summary, response,
             strategy>>

segVars == <<window_size, transcript_segments, topic_changes, topic_change_indices,
             start_idx, bpos, segments, ranges>>

pureVars == <<est_num_sentences, est_num_words, bracket_target, target_sentences, fmt_tenths,
              timestamp, sentences, seg_max_sentences, top_indices>>

dispVars == <<method, USE_TRANSFORMER, transformer_calls, textrank_calls>>

posVars == <<n_sentences, position_scores>>

cenVars == <<similarity_matrix, centrality, rounds, centrality_scores>>

simVars == <<sim_sentences, sim_matrix>>

rateVars == <<request_counts, limit, window, clock, accepted, calls>>

\* The variables of the functions modelled on their own, beyond pureVars
restVars == <<posVars, cenVars, simVars, rateVars>>

vars == <<pc, text, max_sentences_value, max_sentences, ts_max_sentences,
          unique_sentences, filtered_sentences, sentence_scores, ranked_items,
          pos, selected_indices, strict_selected, rejected, summary, response,
          strategy, window_size, transcript_segments, topic_changes, topic_change_indices,
          start_idx, bpos, segments, ranges, est_num_sentences, est_num_words,
          bracket_target, target_sentences, fmt_tenths, timestamp, sentences,
          seg_max_sentences, top_indices, method, USE_TRANSFORMER,
          transformer_calls, textrank_calls, n_sentences, position_scores,
          similarity_matrix, centrality, rounds, centrality_scores,
          sim_sentences, sim_matrix, request_counts, limit, window, clock,
          accepted, calls>>

(***************************************************************************)
(* Bounds of the model.                                                    *)
(***************************************************************************)
MaxSents == 3       \* sentences in a request text
MaxTarget == 2      \* largest integer max_sentences a request carries
MaxScore == 2       \* scores are drawn from 1..MaxScore
MaxEntries == 5     \* entries in a transcript
MaxWindow == 2      \* largest window_size handed to detect_topic_changes
MaxDetectEntries == 7 \* entries in a transcript of the boundary-detection runs
MaxEstSentences == 23 \* sentences of a text handed to the length estimator
MaxEstWords == 2010 \* words of a text handed to the length estimator
MaxHours == 100     \* hours in a number of seconds handed to format_timestamp
MaxSegSentences == 5 \* sentences of a segment handed to summarize_segment
MaxSegKeep == 2     \* largest max_sentences handed to summarize_segment
MaxPosSentences == 52 \* sentences handed to the position scoring
MaxCenSentences == 3 \* sentences of a similarity matrix handed to the centrality
MaxSimSentences == 2 \* sentences handed to build_similarity_matrix
MaxSimTokens == 3   \* tokens of a sentence handed to build_similarity_matrix
MaxRaceCalls == 1   \* calls of check_rate_limit one thread makes when threads interleave
MaxClock == 3       \* last clock value at which check_rate_limit is called

(***************************************************************************)
(* Generic helpers.                                                        *)
(***************************************************************************)
Range(s) == {s[i] : i \in 1..Len(s)}

Min(a, b) == IF a <= b THEN a ELSE b

Max(a, b) == IF a >= b THEN a ELSE b

SeqsUpTo(S, n) == UNION {[1..m -> S] : m \in 0..n}

None == <<>>

Some(n) == <<n>>

(***************************************************************************)
(* Sentences.  Upper-case tokens are the capitalised spellings of the      *)
(* lower-case ones; "." is the sentence's closing punctuation token.       *)
(***************************************************************************)
UpperTokens == {"A", "B"}

LowerTokens == {"a", "b", "c", "d"}

\* str.lower() on one token
LowerTok(t) == CASE t = "A" -> "a" [] t = "B" -> "b" [] OTHER -> t

\* sentence.strip().lower(): the key of the duplicate check (line 335) and the
\* argument of word_tokenize in are_sentences_similar (lines 296-297)
Lower(s) == [i \in 1..Len(s) |-> LowerTok(s[i])]

\* str.isupper(): some cased character, and no lower-case one
IsUpper(s) ==
    /\ \E i \in 1..Len(s) : s[i] \in UpperTokens
    /\ \A i \in 1..Len(s) : s[i] \notin LowerTokens

\* The sentences a request text is made of: a plain sentence, its
\* capitalised duplicate, two near-duplicates of it (Jaccard 3/5 and 4/5), a
\* sentence at Jaccard similarity exactly 1/2 to the first and the third, a
\* two-token fragment and an all-caps three-token headline.
SentencePool ==
    { <<"a", "b", "c", ".">>,
      <<"A", "b", "c", ".">>,
      <<"a", "b", "d", ".">>,
      <<"a", "b", "c", "d", ".">>,
      <<"a", "a", ".">>,
      <<"a", ".">>,
      <<"A", "B", ".">> }

\* The fixed sentence textrank_summarize returns when nothing can be summarised
UnableSentence == <<"Unable", "to", "generate", "summary", ".">>

\* len(text.split()): whitespace-separated words; punctuation stays attached
NumWords(sents) ==
    LET F[i \in 0..Len(sents)] ==
            IF i = 0 THEN 0
            ELSE F[i-1] + Cardinality({j \in 1..Len(sents[i]) : sents[i][j] # "."})
    IN  F[Len(sents)]

(***************************************************************************)
(* calculate_optimal_summary_length (backend_api.py 77-121).  int(n*0.7)   *)
(* and the like are computed in integers as (n*7) \div 10; the two agree   *)
(* for every n below 90, far beyond the texts of this model.               *)
(***************************************************************************)
\* Variant of TargetByWordCount: the first bracket includes 100 words
TargetByWordCountInclusive(num_sentences, num_words) ==
    IF num_words <= 100 THEN Max(2, (num_sentences * 7) \div 10)
    ELSE IF num_words < 300 THEN Max(2, (num_sentences * 5) \div 10)
    ELSE IF num_words < 800 THEN Max(3, (num_sentences * 35) \div 100)
    ELSE IF num_words < 2000 THEN Max(4, (num_sentences * 25) \div 100)
    ELSE Max(5, (num_sentences * 18) \div 100)

TargetByWordCount(num_sentences, num_words) ==
    IF num_words < 100 THEN Max(2, (num_sentences * 7) \div 10)
    ELSE IF num_words < 300 THEN Max(2, (num_sentences * 5) \div 10)
    ELSE IF num_words < 800 THEN Max(3, (num_sentences * 35) \div 100)
    ELSE IF num_words < 2000 THEN Max(4, (num_sentences * 25) \div 100)
    ELSE Max(5, (num_sentences * 18) \div 100)

AdjustByComplexity(target, num_sentences, num_words) ==
    \* avg_sentence_length = num_words / num_sentences, 0 when there is no sentence
    IF num_sentences > 0 /\ num_words > 25 * num_sentences
    THEN Max(2, (target * 8) \div 10)
    ELSE IF num_sentences = 0 \/ num_words < 10 * num_sentences
    THEN (target * 12) \div 10
    ELSE target

\* Variant of calculate_optimal_summary_length: the upper clamp of line 116
\* is missing
EstimateWithoutUpperClamp(num_sentences, num_words) ==
    LET t1 == TargetByWordCount(num_sentences, num_words)
        t2 == AdjustByComplexity(t1, num_sentences, num_words)
        t3 == Max(2, t2)
    IN  Min(t3, num_sentences)

\* Variant of calculate_optimal_summary_length: the cap of line 119 is missing
EstimateWithoutSentenceCap(num_sentences, num_words) ==
    LET t1 == TargetByWordCount(num_sentences, num_words)
        t2 == AdjustByComplexity(t1, num_sentences, num_words)
    IN  Max(2, Min(t2, 12))

calculate_optimal_summary_length(num_sentences, num_words) ==
    LET t1 == TargetByWordCount(num_sentences, num_words)
        t2 == AdjustByComplexity(t1, num_sentences, num_words)
        t3 == Max(2, Min(t2, 12))
    IN  Min(t3, num_sentences)

(***************************************************************************)
(* are_sentences_similar (backend_api.py 294-306).  The threshold is the   *)
(* rational num/den; intersection/union > num/den is compared in integers. *)
(***************************************************************************)
WordSet(sent) == Range(Lower(sent))

are_sentences_similar(sent1, sent2, num, den) ==
    LET words1 == WordSet(sent1)
        words2 == WordSet(sent2)
        intersection == Cardinality(words1 \cap words2)
        union == Cardinality(words1 \cup words2)
    IN  IF words1 = {} \/ words2 = {} THEN FALSE
        ELSE IF union > 0 THEN intersection * den > num * union
        ELSE FALSE

\* Variant of RedundancyCheck: the call leaves the threshold at its default 0.7
RedundancyCheckDefault(sent1, sent2) == are_sentences_similar(sent1, sent2, 7, 10)

\* The call of line 377 passes threshold=0.5
RedundancyCheck(sent1, sent2) == are_sentences_similar(sent1, sent2, 1, 2)

\* Variant of IsRedundant: the candidate is compared with every other
\* candidate, selected or not
IsRedundantAmongAll(idx, selected, filtered) ==
    \E i \in 1..Len(filtered) : i # idx /\ RedundancyCheck(filtered[idx], filtered[i])

\* is_redundant of lines 374-379
IsRedundant(idx, selected, filtered) ==
    \E i \in 1..Len(selected) : RedundancyCheck(filtered[idx], filtered[selected[i]])

(***************************************************************************)
(* textrank_summarize, the pure steps.                                     *)
(***************************************************************************)
\* Variant of DuplicateKey: the key is not lower-cased
DuplicateKeyCaseSensitive(sentence) == sentence

\* Lines 331-338: keep the first occurrence of every normalised sentence
DuplicateKey(sentence) == Lower(sentence)

RemoveDuplicates(sents) ==
    LET F[i \in 0..Len(sents)] ==
            IF i = 0 THEN <<>>
            ELSE IF \E j \in 1..(i-1) : DuplicateKey(sents[j]) = DuplicateKey(sents[i])
                 THEN F[i-1]
                 ELSE Append(F[i-1], sents[i])
    IN  F[Len(sents)]

\* Lines 343-348: 3..50 tokens, and not an all-caps line of fewer than 4 tokens
KeepSentence(sentence) ==
    /\ 3 <= Len(sentence)
    /\ Len(sentence) <= 50
    /\ ~(IsUpper(sentence) /\ Len(sentence) < 4)

FilterSentences(sents) == SelectSeq(sents, KeepSentence)

\* Variant of FitsTarget: strict comparison
FitsTargetStrict(count, target) == count < target

\* Line 354: the early return
FitsTarget(count, target) == count <= target

\* Variant of RankFrom: among equal scores the larger index comes first
RECURSIVE RankFromLatestFirst(_, _)
RankFromLatestFirst(scores, S) ==
    IF S = {} THEN <<>>
    ELSE LET best == CHOOSE i \in S :
                       \A j \in S : \/ scores[i] > scores[j]
                                    \/ scores[i] = scores[j] /\ i >= j
         IN  <<best>> \o RankFromLatestFirst(scores, S \ {best})

\* Line 365: sorted(..., key=score, reverse=True) is stable, so equal scores
\* stay in ascending index order
RECURSIVE RankFrom(_, _)
RankFrom(scores, S) ==
    IF S = {} THEN <<>>
    ELSE LET best == CHOOSE i \in S :
                       \A j \in S : \/ scores[i] > scores[j]
                                    \/ scores[i] = scores[j] /\ i <= j
         IN  <<best>> \o RankFrom(scores, S \ {best})

RankedItems(scores) == RankFrom(scores, DOMAIN scores)

\* Lines 395-396: the stable sort of the (index, sentence) pairs by index
RECURSIVE SortedByIndex(_)
SortedByIndex(indices) ==
    IF indices = <<>> THEN <<>>
    ELSE LET rest == SortedByIndex(Tail(indices))
             x == Head(indices)
             k == Cardinality({i \in 1..Len(rest) : rest[i] < x})
         IN  SubSeq(rest, 1, k) \o <<x>> \o SubSeq(rest, k + 1, Len(rest))

\* Variant of FinalSentences: the selection order is emitted as it is
FinalSentencesUnsorted(indices, filtered) ==
    [i \in 1..Len(indices) |-> filtered[indices[i]]]


FinalSentences(indices, filtered) ==
    LET order == SortedByIndex(indices)
    IN  [i \in 1..Len(order) |-> filtered[order[i]]]

\* Line 368 and line 388: the break of both loops
TargetReached(selected, target) == Len(selected) >= target

\* Line 386: the backfill pass runs only when the strict pass fell short
NeedsBackfill(selected, target) == Len(selected) < target

\* Variant of BackfillTakes: backfill keeps applying the redundancy check
BackfillTakesNonRedundant(idx, selected, filtered) ==
    /\ idx \notin Range(selected)
    /\ ~IsRedundant(idx, selected, filtered)

\* Line 390: backfill takes every candidate not yet selected
BackfillTakes(idx, selected, filtered) == idx \notin Range(selected)

(***************************************************************************)
(* The summarize handler (backend_api.py 478-543) around                   *)
(* textrank_summarize (308-403).                                           *)
(***************************************************************************)
\* The request's max_sentences field: 'auto' (also '' and null), a value
\* int() turns into an integer (negative, zero or positive: the handler
\* checks no range), or one int() raises on
RequestValues ==
    {[kind |-> "auto", val |-> 0], [kind |-> "bad", val |-> 0]}
        \cup {[kind |-> "int", val |-> n] : n \in (0 - 1)..MaxTarget}

\* The request texts: up to MaxSents different sentences of the pool (a
\* sentence and its capitalised copy stand for every repeated sentence)
Texts ==
    {t \in SeqsUpTo(SentencePool, MaxSents) :
        \A i, j \in 1..Len(t) : i # j => t[i] # t[j]}

\* Lines 514-515
ParseMaxSentences(value) ==
    IF value.kind = "auto" THEN None ELSE Some(value.val)

\* The method field of a request: the default 'textrank', 'transformer', or
\* any other string (line 512 reads it with no check)
Methods == {"textrank", "transformer", "other"}

\* No request is being served: no summarizer has been called
NoDispatch ==
    /\ method = "textrank"
    /\ USE_TRANSFORMER = FALSE
    /\ transformer_calls = <<>>
    /\ textrank_calls = <<>>

\* A request for the transformer method with the model loaded (lines 30-34):
\* the configuration in which both summarizers can run.  The direct call of
\* textrank_summarize made in every other configuration passes the same
\* arguments as the fallback call made here.
LoadedDispatch ==
    /\ method = "transformer"
    /\ USE_TRANSFORMER = TRUE
    /\ transformer_calls = <<>>
    /\ textrank_calls = <<>>

Idle ==
    /\ max_sentences = None
    /\ ts_max_sentences = 0
    /\ unique_sentences = <<>>
    /\ filtered_sentences = <<>>
    /\ sentence_scores = <<>>
    /\ ranked_items = <<>>
    /\ pos = 0
    /\ selected_indices = <<>>
    /\ strict_selected = <<>>
    /\ rejected = {}
    /\ summary = <<>>
    /\ response = "none"
    /\ strategy = "none"

\* No position score is being computed
PosIdle ==
    /\ n_sentences = 0
    /\ position_scores = <<>>

\* No centrality is being computed
CenIdle ==
    /\ similarity_matrix = <<>>
    /\ centrality = <<>>
    /\ rounds = 0
    /\ centrality_scores = <<>>

\* No similarity matrix is being built
SimIdle ==
    /\ sim_sentences = <<>>
    /\ sim_matrix = <<>>

\* The clients check_rate_limit is called for, and the threads calling it
Clients == {"10.0.0.1", "10.0.0.2"}

Threads == {"t1", "t2"}

\* A thread that is not inside check_rate_limit
NoCall == [at |-> "idle", ip_address |-> "10.0.0.1", current_time |-> 0,
           pruned |-> <<>>, ok |-> TRUE, n |-> 0]

\* The rate limiter was never called (line 194: request_counts = {})
RateIdle ==
    /\ request_counts = [c \in {} |-> <<>>]
    /\ limit = 0
    /\ window = 0
    /\ clock = 0
    /\ accepted = [c \in Clients |-> <<>>]
    /\ calls = [t \in Threads |-> NoCall]

RestIdle ==
    /\ PosIdle
    /\ CenIdle
    /\ SimIdle
    /\ RateIdle

\* No call of the three pure functions is under way
PureIdle ==
    /\ est_num_sentences = 0
    /\ est_num_words = 0
    /\ bracket_target = 0
    /\ target_sentences = 0
    /\ fmt_tenths = 0
    /\ timestamp = <<>>
    /\ sentences = <<>>
    /\ seg_max_sentences = 0
    /\ top_indices = <<>>

SegIdle ==
    /\ topic_changes = <<>>
    /\ topic_change_indices = <<>>
    /\ start_idx = 0
    /\ bpos = 0
    /\ segments = <<>>
    /\ ranges = <<>>

Init ==
    /\ pc = "request"
    /\ text \in Texts
    /\ max_sentences_value \in RequestValues
    /\ Idle
    /\ window_size = 0
    /\ transcript_segments = <<>>
    /\ SegIdle
    /\ PureIdle
    /\ LoadedDispatch
    /\ RestIdle

\* What transformer_summarize (405-475) returns when the model produced a
\* text: some abstractive summary ending in '.'
AbstractiveSentence == <<"abstractive", "summary", ".">>

\* Variant of FallbackArguments: the fallback call leaves the target out
FallbackArgumentsDefaultTarget(request_text, target) == [text |-> request_text, max_sentences |-> None]

\* Lines 525 and 527: what the handler passes to textrank_summarize
FallbackArguments(request_text, target) == [text |-> request_text, max_sentences |-> target]

\* Lines 412-475: transformer_summarize returns the model's text, or None
\* when anything in it raised; it calls neither itself nor textrank_summarize
TransformerResults == {"None", "summary"}

\* Lines 504-527: reject an empty text, parse max_sentences, dispatch.  With
\* method 'transformer' and the model loaded, transformer_summarize either
\* returns a summary, which the handler answers with, or None, and the
\* handler falls back to textrank_summarize; otherwise textrank_summarize is
\* called directly.  Both calls pass the same text and max_sentences.
Summarize ==
    /\ pc = "request"
    /\ IF text = <<>>
       THEN /\ pc' = "done"
            /\ response' = "error400"
            /\ UNCHANGED <<max_sentences, summary, strategy, transformer_calls,
                           textrank_calls>>
       ELSE IF max_sentences_value.kind = "bad"
       THEN /\ pc' = "done"
            /\ response' = "error500"
            /\ UNCHANGED <<max_sentences, summary, strategy, transformer_calls,
                           textrank_calls>>
       ELSE LET parsed == ParseMaxSentences(max_sentences_value)
            IN  /\ max_sentences' = parsed
                /\ IF method = "transformer" /\ USE_TRANSFORMER
                   THEN \E transformer_result \in TransformerResults :
                          /\ transformer_calls' =
                                <<[text |-> text, max_sentences |-> parsed,
                                   result |-> transformer_result]>>
                          /\ IF transformer_result = "summary"
                             THEN /\ pc' = "done"
                                  /\ response' = "ok"
                                  /\ strategy' = "transformer"
                                  /\ summary' = <<AbstractiveSentence>>
                                  /\ UNCHANGED textrank_calls
                             ELSE /\ pc' = "textrank"
                                  /\ strategy' = "textrank"
                                  /\ textrank_calls' = <<FallbackArguments(text, parsed)>>
                                  /\ UNCHANGED <<response, summary>>
                   ELSE /\ pc' = "textrank"
                        /\ strategy' = "textrank"
                        /\ textrank_calls' = <<FallbackArguments(text, parsed)>>
                        /\ UNCHANGED <<response, summary, transformer_calls>>
    /\ UNCHANGED <<text, max_sentences_value, ts_max_sentences, unique_sentences,
                   filtered_sentences, sentence_scores, ranked_items, pos,
                   selected_indices, strict_selected, rejected>>
    /\ UNCHANGED <<method, USE_TRANSFORMER>>
    /\ UNCHANGED restVars
    /\ UNCHANGED segVars
    /\ UNCHANGED pureVars

\* Lines 315-355: target length, duplicate removal, quality filter, and the
\* two early returns
Prepare ==
    /\ pc = "textrank"
    /\ LET target == IF max_sentences = None \/ max_sentences = Some(0)
                     THEN calculate_optimal_summary_length(Len(text), NumWords(text))
                     ELSE max_sentences[1]
           unique == RemoveDuplicates(text)
           filtered == FilterSentences(unique)
       IN  /\ ts_max_sentences' = target
           /\ unique_sentences' = unique
           /\ filtered_sentences' = filtered
           /\ IF Len(filtered) = 0
              THEN /\ summary' = <<UnableSentence>>
                   /\ pc' = "done"
                   /\ response' = "ok"
              ELSE IF FitsTarget(Len(filtered), target)
              THEN /\ summary' = filtered
                   /\ pc' = "done"
                   /\ response' = "ok"
              ELSE /\ pc' = "score"
                   /\ UNCHANGED <<summary, response>>
    /\ UNCHANGED <<text, strategy, max_sentences_value, max_sentences, sentence_scores,
                   ranked_items, pos, selected_indices, strict_selected, rejected>>
    /\ UNCHANGED segVars
    /\ UNCHANGED pureVars
    /\ UNCHANGED dispVars
    /\ UNCHANGED restVars

\* Lines 358-365: score every candidate and rank.  The scores of
\* calculate_sentence_importance are floating-point sums of TF-IDF and
\* centrality terms; the selector reads them only through the ranking, so
\* every score vector is allowed here.
Score ==
    /\ pc = "score"
    /\ \E scores \in [1..Len(filtered_sentences) -> 1..MaxScore] :
          /\ sentence_scores' = scores
          /\ ranked_items' = RankedItems(scores)
    /\ selected_indices' = <<>>
    /\ pos' = 1
    /\ pc' = "strict"
    /\ UNCHANGED <<text, strategy, max_sentences_value, max_sentences, ts_max_sentences,
                   unique_sentences, filtered_sentences, strict_selected, rejected,
                   summary, response>>
    /\ UNCHANGED segVars
    /\ UNCHANGED pureVars
    /\ UNCHANGED dispVars
    /\ UNCHANGED restVars

LoopOver(selected) ==
    \/ pos > Len(ranked_items)
    \/ TargetReached(selected, ts_max_sentences)

\* Lines 367-383, one iteration that selects the candidate
StrictAccept ==
    /\ pc = "strict"
    /\ ~LoopOver(selected_indices)
    /\ ~IsRedundant(ranked_items[pos], selected_indices, filtered_sentences)
    /\ selected_indices' = Append(selected_indices, ranked_items[pos])
    /\ pos' = pos + 1
    /\ UNCHANGED <<pc, text, strategy, max_sentences_value, max_sentences, ts_max_sentences,
                   unique_sentences, filtered_sentences, sentence_scores,
                   ranked_items, strict_selected, rejected, summary, response>>
    /\ UNCHANGED segVars
    /\ UNCHANGED pureVars
    /\ UNCHANGED dispVars
    /\ UNCHANGED restVars

\* Lines 367-383, one iteration that finds the candidate redundant
StrictReject ==
    /\ pc = "strict"
    /\ ~LoopOver(selected_indices)
    /\ IsRedundant(ranked_items[pos], selected_indices, filtered_sentences)
    /\ rejected' = rejected \cup {ranked_items[pos]}
    /\ pos' = pos + 1
    /\ UNCHANGED <<pc, text, strategy, max_sentences_value, max_sentences, ts_max_sentences,
                   unique_sentences, filtered_sentences, sentence_scores,
                   ranked_items, selected_indices, strict_selected, summary,
                   response>>
    /\ UNCHANGED segVars
    /\ UNCHANGED pureVars
    /\ UNCHANGED dispVars
    /\ UNCHANGED restVars

\* Lines 368-369 and 386: the strict loop ends (break or list exhausted) and
\* the backfill pass is entered or skipped
StrictEnd ==
    /\ pc = "strict"
    /\ LoopOver(selected_indices)
    /\ strict_selected' = selected_indices
    /\ IF NeedsBackfill(selected_indices, ts_max_sentences)
       THEN pc' = "backfill" /\ pos' = 1
       ELSE pc' = "emit" /\ UNCHANGED pos
    /\ UNCHANGED <<text, strategy, max_sentences_value, max_sentences, ts_max_sentences,
                   unique_sentences, filtered_sentences, sentence_scores,
                   ranked_items, selected_indices, rejected, summary, response>>
    /\ UNCHANGED segVars
    /\ UNCHANGED pureVars
    /\ UNCHANGED dispVars
    /\ UNCHANGED restVars

\* Lines 387-392, one iteration that adds the candidate
BackfillAdd ==
    /\ pc = "backfill"
    /\ ~LoopOver(selected_indices)
    /\ BackfillTakes(ranked_items[pos], selected_indices, filtered_sentences)
    /\ selected_indices' = Append(selected_indices, ranked_items[pos])
    /\ pos' = pos + 1
    /\ UNCHANGED <<pc, text, strategy, max_sentences_value, max_sentences, ts_max_sentences,
                   unique_sentences, filtered_sentences, sentence_scores,
                   ranked_items, strict_selected, rejected, summary, response>>
    /\ UNCHANGED segVars
    /\ UNCHANGED pureVars
    /\ UNCHANGED dispVars
    /\ UNCHANGED restVars

\* Lines 387-392, one iteration over a candidate that is already selected
BackfillSkip ==
    /\ pc = "backfill"
    /\ ~LoopOver(selected_indices)
    /\ ~BackfillTakes(ranked_items[pos], selected_indices, filtered_sentences)
    /\ pos' = pos + 1
    /\ UNCHANGED <<pc, text, strategy, max_sentences_value, max_sentences, ts_max_sentences,
                   unique_sentences, filtered_sentences, sentence_scores,
                   ranked_items, selected_indices, strict_selected, rejected,
                   summary, response>>
    /\ UNCHANGED segVars
    /\ UNCHANGED pureVars
    /\ UNCHANGED dispVars
    /\ UNCHANGED restVars

\* Lines 388-389: the backfill loop ends
BackfillEnd ==
    /\ pc = "backfill"
    /\ LoopOver(selected_indices)
    /\ pc' = "emit"
    /\ UNCHANGED <<text, strategy, max_sentences_value, max_sentences, ts_max_sentences,
                   unique_sentences, filtered_sentences, sentence_scores,
                   ranked_items, pos, selected_indices, strict_selected, rejected,
                   summary, response>>
    /\ UNCHANGED segVars
    /\ UNCHANGED pureVars
    /\ UNCHANGED dispVars
    /\ UNCHANGED restVars

\* Lines 394-403 and 529-540: restore document order, join, answer
Emit ==
    /\ pc = "emit"
    /\ summary' = FinalSentences(selected_indices, filtered_sentences)
    /\ pc' = "done"
    /\ response' = "ok"
    /\ UNCHANGED <<text, strategy, max_sentences_value, max_sentences, ts_max_sentences,
                   unique_sentences, filtered_sentences, sentence_scores,
                   ranked_items, pos, selected_indices, strict_selected, rejected>>
    /\ UNCHANGED segVars
    /\ UNCHANGED pureVars
    /\ UNCHANGED dispVars
    /\ UNCHANGED restVars

Next ==
    \/ Summarize
    \/ Prepare
    \/ Score
    \/ StrictAccept
    \/ StrictReject
    \/ StrictEnd
    \/ BackfillAdd
    \/ BackfillSkip
    \/ BackfillEnd
    \/ Emit

Spec == Init /\ [][Next]_vars

(***************************************************************************)
(* Transcript mode (video_summarizer_api.py).  An entry's text is its word *)
(* sequence: joining with ' ' and strip() change white space only.  Words  *)
(* are numbered; a positive number is a word TfidfVectorizer keeps, a      *)
(* negative one a token it drops (an English stop word, a one-letter       *)
(* token).  Boundaries keep the code's values: boundary b separates the    *)
(* first b entries from the rest, and the slice [a:b] is entries a+1..b.   *)
(***************************************************************************)
\* texts[a:b] joined with ' '
RECURSIVE JoinTexts(_, _, _)
JoinTexts(entries, a, b) ==
    IF a >= b THEN <<>>
    ELSE JoinTexts(entries, a, b - 1) \o entries[b].text

\* The vectorizer finds a vocabulary in the text
HasVocabulary(words) == \E i \in 1..Len(words) : words[i] > 0

\* Variant of CandidateRange: the candidates run up to the last entry
CandidateRangeToEnd(entries, w) == {i \in w..(Len(entries) - 1) : TRUE}

\* Lines 81-96, the candidate indices range(window_size, len - window_size)
CandidateRange(entries, w) == {i \in w..(Len(entries) - w - 1) : TRUE}

\* Lines 83-96 for one index i: can i be reported, must it be reported.
\* With no vocabulary in either window fit_transform raises and the index is
\* skipped; with vocabulary in one window only the cosine similarity is 0,
\* below every positive threshold; otherwise the similarity depends on the
\* words and both verdicts are possible.
MayChange(entries, w, i) ==
    HasVocabulary(JoinTexts(entries, i - w, i) \o JoinTexts(entries, i, i + w))

MustChange(entries, w, i) ==
    HasVocabulary(JoinTexts(entries, i - w, i))
        # HasVocabulary(JoinTexts(entries, i, i + w))

\* Ascending sequence of a set of integers: the order the loop appends in
RECURSIVE Ascending(_)
Ascending(S) ==
    IF S = {} THEN <<>>
    ELSE LET least == CHOOSE i \in S : \A j \in S : i <= j
         IN  <<least>> \o Ascending(S \ {least})

\* Variant of FilterChanges: the distance is measured to the last candidate
\* seen, kept or not
RECURSIVE FilterChangesLastSeen(_, _, _)
FilterChangesLastSeen(changes, w, last_change) ==
    IF changes = <<>> THEN <<>>
    ELSE IF Head(changes) - last_change >= w
         THEN <<Head(changes)>> \o FilterChangesLastSeen(Tail(changes), w, Head(changes))
         ELSE FilterChangesLastSeen(Tail(changes), w, Head(changes))

\* Lines 98-105: drop the changes closer than window_size to the last kept one
RECURSIVE FilterChanges(_, _, _)
FilterChanges(changes, w, last_change) ==
    IF changes = <<>> THEN <<>>
    ELSE IF Head(changes) - last_change >= w
         THEN <<Head(changes)>> \o FilterChanges(Tail(changes), w, Head(changes))
         ELSE FilterChanges(Tail(changes), w, last_change)

FilteredChanges(changes, w) == FilterChanges(changes, w, 0 - w * 2)

\* The decimal digits of a natural number
RECURSIVE Digits(_)
Digits(n) == IF n < 10 THEN <<n>> ELSE Digits(n \div 10) \o <<n % 10>>

\* The format {n:02d} of lines 117 and 119: the digits of n, zero-padded to
\* a width of at least two
TwoDigits(n) == IF n < 10 THEN <<0, n>> ELSE Digits(n)

\* Variant of format_timestamp_at: the minutes are not reduced modulo the hour
FormatWithTotalMinutes(ticks, per_second) ==
    LET hours == ticks \div (3600 * per_second)
        minutes == ticks \div (60 * per_second)
        secs == (ticks % (60 * per_second)) \div per_second
    IN  IF hours > 0
        THEN <<TwoDigits(hours), TwoDigits(minutes), TwoDigits(secs)>>
        ELSE <<TwoDigits(minutes), TwoDigits(secs)>>

\* Lines 110-119 for seconds = ticks / per_second, a non-negative number
\* that need not be whole: // and % are floor division and its remainder,
\* int() drops the fraction.  The string is represented by the digit
\* sequences of its ':'-separated fields.
format_timestamp_at(ticks, per_second) ==
    LET hours == ticks \div (3600 * per_second)
        minutes == (ticks % (3600 * per_second)) \div (60 * per_second)
        secs == (ticks % (60 * per_second)) \div per_second
    IN  IF hours > 0
        THEN <<TwoDigits(hours), TwoDigits(minutes), TwoDigits(secs)>>
        ELSE <<TwoDigits(minutes), TwoDigits(secs)>>

\* format_timestamp on a whole number of seconds
format_timestamp(seconds) == format_timestamp_at(seconds, 1)

\* Variant of LoopBoundaries: the closing boundary is not appended
LoopBoundariesNoEnd(entries, changes) == changes

\* Line 132: topic_change_indices + [len(transcript_segments)]
LoopBoundaries(entries, changes) == Append(changes, Len(entries))

\* Variant of StartEntry: the range's last entry stamps the segment
StartEntryLast(start, change) == change

\* Line 135: the entry whose start time stamps the segment
StartEntry(start, change) == start + 1

\* Transcripts: every entry is blank, a dropped token or a kept word; start
\* times never decrease, and entries tie and tie+1 share one (tie = 0: none)
EntryKinds == {"blank", "dropped", "word"}

EntryText(i, kind) ==
    IF kind = "blank" THEN <<>> ELSE IF kind = "dropped" THEN <<0 - i>> ELSE <<i>>

StartTime(i, tie) == IF tie > 0 /\ i > tie THEN 10 * (i - 1) - 10 ELSE 10 * (i - 1)

Transcripts ==
    UNION { { [i \in 1..n |-> [text |-> EntryText(i, kinds[i]), start |-> StartTime(i, tie)]] :
                kinds \in [1..n -> EntryKinds],
                tie \in 0..(IF n = 0 THEN 0 ELSE n - 1) } : n \in 0..MaxEntries }

SegInit ==
    /\ pc = "video"
    /\ window_size \in 1..MaxWindow
    /\ transcript_segments \in Transcripts
    /\ SegIdle
    /\ text = <<>>
    /\ max_sentences_value = [kind |-> "auto", val |-> 0]
    /\ Idle
    /\ PureIdle
    /\ NoDispatch
    /\ RestIdle

\* summarize_video_with_timestamps, lines 189-190: an empty transcript is an error
EmptyTranscript ==
    /\ pc = "video"
    /\ Len(transcript_segments) = 0
    /\ pc' = "seg_error"
    /\ UNCHANGED segVars
    /\ UNCHANGED sumVars
    /\ UNCHANGED pureVars
    /\ UNCHANGED dispVars
    /\ UNCHANGED restVars

\* detect_topic_changes, lines 67-107, called at line 193
DetectTopicChanges ==
    /\ pc = "video"
    /\ Len(transcript_segments) > 0
    /\ IF Len(transcript_segments) < window_size * 2
       THEN /\ topic_changes' = <<>>
            /\ topic_change_indices' = <<>>
       ELSE \E found \in SUBSET CandidateRange(transcript_segments, window_size) :
               /\ \A i \in found : MayChange(transcript_segments, window_size, i)
               /\ \A i \in CandidateRange(transcript_segments, window_size) :
                     MustChange(transcript_segments, window_size, i) => i \in found
               /\ topic_changes' = Ascending(found)
               /\ topic_change_indices' = FilteredChanges(Ascending(found), window_size)
    /\ start_idx' = 0
    /\ bpos' = 1
    /\ pc' = "segments"
    /\ UNCHANGED <<window_size, transcript_segments, segments, ranges>>
    /\ UNCHANGED sumVars
    /\ UNCHANGED pureVars
    /\ UNCHANGED dispVars
    /\ UNCHANGED restVars

\* create_segments_with_topics, lines 132-144: one iteration that emits a segment
SegmentEmit ==
    /\ pc = "segments"
    /\ bpos <= Len(LoopBoundaries(transcript_segments, topic_change_indices))
    /\ LET change_idx == LoopBoundaries(transcript_segments, topic_change_indices)[bpos]
           segment_text == JoinTexts(transcript_segments, start_idx, change_idx)
           start_time == transcript_segments[StartEntry(start_idx, change_idx)].start
       IN  /\ segment_text # <<>>
           /\ segments' = Append(segments, [timestamp |-> format_timestamp(start_time),
                                            start_seconds |-> start_time,
                                            text |-> segment_text])
           /\ ranges' = Append(ranges, <<start_idx, change_idx>>)
           /\ start_idx' = change_idx
    /\ bpos' = bpos + 1
    /\ UNCHANGED <<pc, window_size, transcript_segments, topic_changes,
                   topic_change_indices>>
    /\ UNCHANGED sumVars
    /\ UNCHANGED pureVars
    /\ UNCHANGED dispVars
    /\ UNCHANGED restVars

\* create_segments_with_topics, lines 132-144: one iteration over a range
\* whose text is blank, which emits nothing
SegmentSkip ==
    /\ pc = "segments"
    /\ bpos <= Len(LoopBoundaries(transcript_segments, topic_change_indices))
    /\ LET change_idx == LoopBoundaries(transcript_segments, topic_change_indices)[bpos]
           segment_text == JoinTexts(transcript_segments, start_idx, change_idx)
       IN  /\ segment_text = <<>>
           /\ start_idx' = change_idx
    /\ bpos' = bpos + 1
    /\ UNCHANGED <<pc, window_size, transcript_segments, topic_changes,
                   topic_change_indices, segments, ranges>>
    /\ UNCHANGED sumVars
    /\ UNCHANGED pureVars
    /\ UNCHANGED dispVars
    /\ UNCHANGED restVars

\* create_segments_with_topics, line 146: the loop is over, the list is returned
SegmentsReturn ==
    /\ pc = "segments"
    /\ bpos > Len(LoopBoundaries(transcript_segments, topic_change_indices))
    /\ pc' = "seg_done"
    /\ UNCHANGED segVars
    /\ UNCHANGED sumVars
    /\ UNCHANGED pureVars
    /\ UNCHANGED dispVars
    /\ UNCHANGED restVars

SegNext ==
    \/ EmptyTranscript
    \/ DetectTopicChanges
    \/ SegmentEmit
    \/ SegmentSkip
    \/ SegmentsReturn

SpecSeg == SegInit /\ [][SegNext]_vars

\* Longer transcripts for the boundary detection: every entry is blank or a
\* kept word, and the start times are distinct
DetectTranscripts ==
    UNION { { [i \in 1..n |-> [text |-> EntryText(i, kinds[i]), start |-> StartTime(i, 0)]] :
                kinds \in [1..n -> {"blank", "word"}] } : n \in 0..MaxDetectEntries }

DetectInit ==
    /\ pc = "video"
    /\ window_size \in 1..MaxWindow
    /\ transcript_segments \in DetectTranscripts
    /\ SegIdle
    /\ text = <<>>
    /\ max_sentences_value = [kind |-> "auto", val |-> 0]
    /\ Idle
    /\ PureIdle
    /\ NoDispatch
    /\ RestIdle

SpecDetect == DetectInit /\ [][SegNext]_vars

(***************************************************************************)
(* Properties of textrank_summarize.                                       *)
(***************************************************************************)
Returned == pc = "done" /\ response = "ok" /\ strategy = "textrank"

RankedPath == sentence_scores # <<>>

FilteredCount == Len(filtered_sentences)

Candidates == 1..FilteredCount

\* |A \cap B| / |A \cup B| > 1/2 over the lower-cased token sets
JaccardAboveHalf(s1, s2) ==
    LET A == {LowerTok(s1[i]) : i \in 1..Len(s1)}
        B == {LowerTok(s2[i]) : i \in 1..Len(s2)}
    IN  2 * Cardinality(A \cap B) > Cardinality(A \cup B)

PairwiseDissimilar(indices) ==
    \A i, j \in 1..Len(indices) :
        i # j => ~JaccardAboveHalf(filtered_sentences[indices[i]],
                                   filtered_sentences[indices[j]])

NoIndexTwice(indices) ==
    \A i, j \in 1..Len(indices) : i # j => indices[i] # indices[j]

\* C1: with at least one filtered candidate, textrank_summarize returns
\* exactly min(target, filtered_count) sentences.
C1_ExactCount ==
    (Returned /\ FilteredCount >= 1)
        => Len(summary) = Min(ts_max_sentences, FilteredCount)

\* C2: at every step of the strict pass and of the backfill pass the selected
\* indices hold no index twice, and are at most target and at most
\* filtered_count many.
C2_SelectionInvariant ==
    pc \in {"strict", "backfill", "emit"}
        => /\ NoIndexTwice(selected_indices)
           /\ Len(selected_indices) <= ts_max_sentences
           /\ Len(selected_indices) <= FilteredCount

\* C3: whenever a valid candidate sentence exists, the summary the handler
\* gets back holds at least one sentence.
C3_AtLeastOne ==
    (Returned /\ FilteredCount >= 1) => Len(summary) >= 1

\* C4: on the early-return path and on the ranked path the emitted sentences
\* are filtered sentences in strictly increasing order of their index in the
\* filtered list.
C4_DocumentOrder ==
    (Returned /\ FilteredCount >= 1)
        => /\ \A i \in 1..Len(summary) : summary[i] \in Range(filtered_sentences)
           /\ \A i, j \in 1..Len(summary) :
                 i < j => \E a, b \in Candidates :
                             /\ a < b
                             /\ filtered_sentences[a] = summary[i]
                             /\ filtered_sentences[b] = summary[j]

\* C4 witness: a ranked run whose selection order was not document order
C4_Witness ==
    /\ Returned
    /\ RankedPath
    /\ Len(summary) >= 2
    /\ \E i \in 1..(Len(selected_indices) - 1) :
          selected_indices[i] > selected_indices[i + 1]

C6_PairwiseState ==
    /\ pc = "strict" => PairwiseDissimilar(selected_indices)
    /\ (pc \in {"backfill", "emit"} \/ (Returned /\ RankedPath))
          => PairwiseDissimilar(strict_selected)

C6_RejectRule ==
    (pc = "strict" /\ pos' = pos + 1) =>
        LET cand == ranked_items[pos]
            tooClose == \E i \in 1..Len(selected_indices) :
                           JaccardAboveHalf(filtered_sentences[cand],
                                            filtered_sentences[selected_indices[i]])
        IN  /\ tooClose => (selected_indices' = selected_indices /\ cand \in rejected')
            /\ ~tooClose => (selected_indices' = Append(selected_indices, cand)
                             /\ rejected' = rejected)

C6_StrictPass == [](C6_PairwiseState) /\ [][C6_RejectRule]_vars

\* C6 witness: the strict pass has rejected a candidate and has selected two
C6_Witness ==
    /\ pc = "emit"
    /\ rejected # {}
    /\ Len(strict_selected) >= 2

\* C7: a candidate the strict pass rejected is in the output only when the
\* strict pass walked the whole ranked list and ended below the target; the
\* backfill pass appends the candidates the strict pass left out, in ranked
\* order, whatever their similarity, and stops once the target is met or no
\* candidate is left.
LeftOut == SelectSeq(ranked_items, LAMBDA i : i \notin Range(strict_selected))

C7_Backfill ==
    (pc \in {"backfill", "emit"} \/ (Returned /\ RankedPath)) =>
        LET added == Len(selected_indices) - Len(strict_selected)
        IN  /\ added >= 0
            /\ added <= Len(LeftOut)
            /\ selected_indices = strict_selected \o SubSeq(LeftOut, 1, added)
            /\ (rejected \cap Range(selected_indices) # {}) =>
                  /\ Len(strict_selected) < ts_max_sentences
                  /\ Range(strict_selected) \cup rejected = Candidates
            /\ (added > 0) => Len(selected_indices) <= ts_max_sentences
            /\ (pc # "backfill" /\ Len(strict_selected) < ts_max_sentences) =>
                  \/ Len(selected_indices) = ts_max_sentences
                  \/ Range(selected_indices) = Candidates

\* C7 witness: a rejected candidate came back through backfill
C7_Witness ==
    /\ Returned
    /\ RankedPath
    /\ rejected \cap Range(selected_indices) # {}

\* C8 as stated: whenever the filtered count is at most the target, the
\* filtered list is returned verbatim and nothing is scored, ranked or checked
\* for redundancy.
C8_EarlyReturnOriginal ==
    (Returned /\ FilteredCount <= ts_max_sentences)
        => /\ summary = filtered_sentences
           /\ sentence_scores = <<>>
           /\ ranked_items = <<>>
           /\ selected_indices = <<>>

\* C8 amended: the same whenever the filtered count is at least 1 and at most
\* the target; with no filtered candidate the fixed sentence 'Unable to
\* generate summary.' is returned instead.
C8_EarlyReturn ==
    /\ (Returned /\ 1 <= FilteredCount /\ FilteredCount <= ts_max_sentences)
          => /\ summary = filtered_sentences
             /\ sentence_scores = <<>>
             /\ ranked_items = <<>>
             /\ selected_indices = <<>>
    /\ (Returned /\ FilteredCount = 0)
          => /\ summary = <<UnableSentence>>
             /\ sentence_scores = <<>>
             /\ ranked_items = <<>>

\* C8 witness: an early return of two or more sentences from a longer text
C8_Witness ==
    /\ Returned
    /\ FilteredCount >= 2
    /\ FilteredCount <= ts_max_sentences
    /\ FilteredCount < Len(text)
    /\ summary = filtered_sentences

(***************************************************************************)
(* Properties of create_segments_with_topics.                              *)
(***************************************************************************)
SegmentsBuilt == pc = "seg_done"

EntryCount == Len(transcript_segments)

\* The emitted segments that entry e (1-based) lies in
SegmentsOf(e) == {k \in 1..Len(ranges) : ranges[k][1] < e /\ e <= ranges[k][2]}

RECURSIVE ConcatSegmentTexts(_)
ConcatSegmentTexts(segs) ==
    IF segs = <<>> THEN <<>>
    ELSE ConcatSegmentTexts(SubSeq(segs, 1, Len(segs) - 1)) \o segs[Len(segs)].text

FullText == JoinTexts(transcript_segments, 0, EntryCount)

RangesInOrder ==
    /\ Len(ranges) = Len(segments)
    /\ \A k \in 1..Len(ranges) :
          /\ 0 <= ranges[k][1]
          /\ ranges[k][1] < ranges[k][2]
          /\ ranges[k][2] <= EntryCount
          /\ segments[k].text = JoinTexts(transcript_segments, ranges[k][1], ranges[k][2])
    /\ \A k \in 1..(Len(ranges) - 1) : ranges[k][2] <= ranges[k + 1][1]

\* C9 as stated: the emitted segments cover contiguous, pairwise disjoint
\* index ranges whose union is the whole transcript, every entry lies in
\* exactly one emitted segment, and the segment texts concatenated in order
\* are the transcript text up to white space.  (Stated for transcripts that
\* hold some text; a transcript of blank entries only is an input error.)
C9_PartitionOriginal ==
    (SegmentsBuilt /\ FullText # <<>>) =>
        /\ RangesInOrder
        /\ \A k \in 1..(Len(ranges) - 1) : ranges[k][2] = ranges[k + 1][1]
        /\ \A e \in 1..EntryCount : Cardinality(SegmentsOf(e)) = 1
        /\ ConcatSegmentTexts(segments) = FullText

\* C9 amended: the ranges between consecutive boundaries partition the
\* transcript; exactly those whose text is not blank are emitted, in order
\* and pairwise disjoint, so every entry lies in at most one emitted segment,
\* every entry with non-blank text in exactly one, and the segment texts
\* concatenated in order are the transcript text up to white space.
C9_Partition ==
    SegmentsBuilt =>
        /\ RangesInOrder
        /\ \A e \in 1..EntryCount :
              /\ Cardinality(SegmentsOf(e)) <= 1
              /\ transcript_segments[e].text # <<>> => Cardinality(SegmentsOf(e)) = 1
        /\ \A k \in 1..Len(ranges) :
              /\ ranges[k][1] \in {0} \cup Range(topic_change_indices)
              /\ ranges[k][2] \in Range(topic_change_indices) \cup {EntryCount}
              /\ \A b \in Range(topic_change_indices) :
                    ~(ranges[k][1] < b /\ b < ranges[k][2])
        /\ ConcatSegmentTexts(segments) = FullText

\* C9 witness: two segments emitted around a boundary, and a blank range dropped
C9_Witness ==
    /\ SegmentsBuilt
    /\ Len(segments) >= 2
    /\ Len(segments) < Len(topic_change_indices) + 1

StrictlyTimed ==
    \A i, j \in 1..EntryCount :
        i < j => transcript_segments[i].start < transcript_segments[j].start

C11_ShortTranscript ==
    (SegmentsBuilt /\ EntryCount < 2 * window_size) =>
        /\ topic_change_indices = <<>>
        /\ Len(segments) = 1
        /\ ranges = << <<0, EntryCount>> >>
        /\ segments[1].start_seconds = transcript_segments[1].start
        /\ segments[1].timestamp = format_timestamp(transcript_segments[1].start)

Detected == pc \in {"segments", "seg_done"}

\* The last kept boundary before candidate c, 0 - 1 when there is none
LastKeptBefore(c) ==
    LET before == {b \in Range(topic_change_indices) : b < c}
    IN  IF before = {} THEN 0 - 1
        ELSE CHOOSE b \in before : \A other \in before : other <= b

\* C12: the returned boundaries are strictly increasing, lie in
\* [window_size, length - window_size), and consecutive ones are at least
\* window_size apart; they are candidates, and a candidate is dropped only
\* when it is fewer than window_size positions after the last kept boundary.
C12_Boundaries ==
    Detected =>
        /\ \A k \in 1..Len(topic_change_indices) :
              /\ window_size <= topic_change_indices[k]
              /\ topic_change_indices[k] < EntryCount - window_size
        /\ \A k \in 1..(Len(topic_change_indices) - 1) :
              /\ topic_change_indices[k] < topic_change_indices[k + 1]
              /\ topic_change_indices[k + 1] - topic_change_indices[k] >= window_size
        /\ Range(topic_change_indices) \subseteq Range(topic_changes)
        /\ \A c \in Range(topic_changes) \ Range(topic_change_indices) :
              /\ LastKeptBefore(c) >= 0
              /\ c - LastKeptBefore(c) < window_size

\* C12 witness: a boundary kept although the candidate seen just before it,
\* which was dropped, is fewer than window_size positions away
C12_Witness ==
    /\ Detected
    /\ \E i \in 2..Len(topic_changes) :
          /\ topic_changes[i] \in Range(topic_change_indices)
          /\ topic_changes[i - 1] \notin Range(topic_change_indices)
          /\ topic_changes[i] - topic_changes[i - 1] < window_size

(***************************************************************************)
(* calculate_optimal_summary_length called on its own.  Both callers       *)
(* (lines 325 and 418) pass a text that is not blank, so it has at least   *)
(* one sentence, and every sentence holds at least one word.               *)
(***************************************************************************)
LenInit ==
    /\ pc = "estimate"
    /\ est_num_sentences \in 1..MaxEstSentences
    /\ est_num_words \in est_num_sentences..MaxEstWords
    /\ bracket_target = 0
    /\ target_sentences = 0
    /\ fmt_tenths = 0
    /\ timestamp = <<>>
    /\ sentences = <<>>
    /\ seg_max_sentences = 0
    /\ top_indices = <<>>
    /\ text = <<>>
    /\ max_sentences_value = [kind |-> "auto", val |-> 0]
    /\ Idle
    /\ window_size = 0
    /\ transcript_segments = <<>>
    /\ SegIdle
    /\ NoDispatch
    /\ RestIdle

\* Lines 77-121
EstimateLength ==
    /\ pc = "estimate"
    /\ bracket_target' = TargetByWordCount(est_num_sentences, est_num_words)
    /\ target_sentences' = calculate_optimal_summary_length(est_num_sentences, est_num_words)
    /\ pc' = "estimated"
    /\ UNCHANGED <<est_num_sentences, est_num_words, fmt_tenths, timestamp, sentences,
                   seg_max_sentences, top_indices>>
    /\ UNCHANGED sumVars
    /\ UNCHANGED segVars
    /\ UNCHANGED dispVars
    /\ UNCHANGED restVars

LenNext == EstimateLength

SpecLen == LenInit /\ [][LenNext]_vars

Estimated == pc = "estimated"

\* C13 as stated: the value calculate_optimal_summary_length returns lies
\* within [2, 12].
C13_ClampOriginal ==
    Estimated => (2 <= target_sentences /\ target_sentences <= 12)

\* C13 amended: the returned value is at most 12 and at most the text's
\* sentence count; it is at least 2 for every text of two or more sentences,
\* and 1 for a text of one sentence.
C13_Clamp ==
    Estimated =>
        /\ target_sentences <= 12
        /\ target_sentences <= est_num_sentences
        /\ (est_num_sentences >= 2 => target_sentences >= 2)
        /\ (est_num_sentences = 1 => target_sentences = 1)

\* C13 witness: the upper clamp cut a larger target down to 12
C13_Witness ==
    /\ Estimated
    /\ target_sentences = 12
    /\ AdjustByComplexity(bracket_target, est_num_sentences, est_num_words) > 12

(***************************************************************************)
(* The estimated target inside textrank_summarize.                         *)
(***************************************************************************)
\* textrank_summarize has computed its target itself (lines 324-325)
AutoTarget ==
    /\ strategy = "textrank"
    /\ pc \notin {"request", "textrank"}
    /\ max_sentences \in {None, Some(0)}

\* C14 as stated: the estimated target never exceeds the number of candidate
\* sentences the selector chooses from, counted after duplicate removal and
\* quality filtering.  (Stated for texts that leave at least one candidate.)
C14_TargetWithinCandidatesOriginal ==
    (AutoTarget /\ FilteredCount >= 1) => ts_max_sentences <= FilteredCount

\* C14 amended: the estimated target never exceeds the number of sentences of
\* the text, counted before duplicate removal and quality filtering.
C14_TargetWithinSentences ==
    AutoTarget => ts_max_sentences <= Len(text)

\* C14 witness: an estimated target above the candidate count, returned
C14_Witness ==
    /\ AutoTarget
    /\ Returned
    /\ FilteredCount >= 1
    /\ ts_max_sentences > FilteredCount

(***************************************************************************)
(* The estimator called on its own and inside a request, side by side.     *)
(***************************************************************************)
AutoInit == Init \/ LenInit

AutoNext == Next \/ LenNext

SpecAuto == AutoInit /\ [][AutoNext]_vars

\* The retention fraction, in per cent, and the minimum of each bracket
BracketPercent(words) ==
    IF words < 100 THEN 70
    ELSE IF words < 300 THEN 50
    ELSE IF words < 800 THEN 35
    ELSE IF words < 2000 THEN 25
    ELSE 18

BracketMinimum(words) ==
    IF words < 300 THEN 2
    ELSE IF words < 800 THEN 3
    ELSE IF words < 2000 THEN 4
    ELSE 5

\* round(count * percent / 100), halves going to the even neighbour
RoundedShare(count, percent) ==
    LET q == (count * percent) \div 100
        r == (count * percent) % 100
    IN  IF 2 * r < 100 THEN q
        ELSE IF 2 * r > 100 THEN q + 1
        ELSE IF q % 2 = 0 THEN q ELSE q + 1

\* The output for a 3-sentence text with no target: with 3 candidates, 2 of
\* them in original order
TwoOfThree ==
    FilteredCount = 3 =>
        /\ Len(summary) = 2
        /\ \E a, b \in Candidates :
              /\ a < b
              /\ summary = <<filtered_sentences[a], filtered_sentences[b]>>

\* A 3-sentence text with no target, whatever its length: the target is 2
ThreeSentenceTextAnyLength ==
    /\ (Estimated /\ est_num_sentences = 3) => target_sentences = 2
    /\ (AutoTarget /\ Returned /\ Len(text) = 3) =>
          (ts_max_sentences = 2 /\ TwoOfThree)

\* A 3-sentence text of fewer than 800 words with no target: the target is 2
ThreeSentenceText ==
    /\ (Estimated /\ est_num_sentences = 3 /\ est_num_words < 800) => target_sentences = 2
    /\ (AutoTarget /\ Returned /\ Len(text) = 3 /\ NumWords(text) < 800) =>
          (ts_max_sentences = 2 /\ TwoOfThree)

\* C15 as stated: before the complexity adjustment the target is
\* max(m, round(S * f)) with (f, m) chosen by the word-count bracket, and a
\* 3-sentence text with no target yields 2 sentences in original order.
C15_BracketOriginal ==
    /\ Estimated =>
          bracket_target = Max(BracketMinimum(est_num_words),
                               RoundedShare(est_num_sentences, BracketPercent(est_num_words)))
    /\ ThreeSentenceTextAnyLength

\* C15 amended: before the complexity adjustment the target is
\* max(m, floor(S * f)): the product is truncated, not rounded; and a
\* 3-sentence text of fewer than 800 words with no target yields a target of
\* 2 and, with 3 candidates, 2 sentences in original order.
C15_Bracket ==
    /\ Estimated =>
          LET m == BracketMinimum(est_num_words)
              share == est_num_sentences * BracketPercent(est_num_words)
          IN  /\ bracket_target >= m
              /\ bracket_target > m =>
                    (bracket_target * 100 <= share /\ share < (bracket_target + 1) * 100)
              /\ bracket_target = m => share < (m + 1) * 100
    /\ ThreeSentenceText

\* C15 witness: a text of 800 to 1999 words whose share of sentences, a
\* fraction that rounding would raise, exceeds the bracket's minimum
C15_Witness ==
    /\ Estimated
    /\ 800 <= est_num_words
    /\ est_num_words < 2000
    /\ bracket_target > 4
    /\ RoundedShare(est_num_sentences, 25) > bracket_target

(***************************************************************************)
(* Properties of the summarize handler.                                    *)
(***************************************************************************)
\* C16: on every path through the handler the target handed to the engine is
\* absent or zero, and then the estimator's value is used, or an integer
\* within [1, 20] that the selector uses unchanged.
C16_ValidatedTarget ==
    /\ strategy # "none" =>
          \/ max_sentences = None
          \/ max_sentences = Some(0)
          \/ max_sentences[1] \in 1..20
    /\ (strategy = "textrank" /\ pc \notin {"request", "textrank"}) =>
          IF max_sentences \in {None, Some(0)}
          THEN ts_max_sentences = calculate_optimal_summary_length(Len(text), NumWords(text))
          ELSE ts_max_sentences = max_sentences[1]

(***************************************************************************)
(* format_timestamp called on its own (video_summarizer_api.py 110-119,    *)
(* called at lines 139 and 215 with a start time or a duration, which      *)
(* youtube_transcript_api reports as non-negative floats).                 *)
(***************************************************************************)
MinuteSamples == {0, 2, 59}

SecondSamples == {0, 5, 59}

TenthSamples == {0, 9}

FmtInit ==
    /\ pc = "format"
    /\ \E h \in 0..MaxHours, m \in MinuteSamples, sec \in SecondSamples, t \in TenthSamples :
          fmt_tenths = (h * 3600 + m * 60 + sec) * 10 + t
    /\ timestamp = <<>>
    /\ est_num_sentences = 0
    /\ est_num_words = 0
    /\ bracket_target = 0
    /\ target_sentences = 0
    /\ sentences = <<>>
    /\ seg_max_sentences = 0
    /\ top_indices = <<>>
    /\ text = <<>>
    /\ max_sentences_value = [kind |-> "auto", val |-> 0]
    /\ Idle
    /\ window_size = 0
    /\ transcript_segments = <<>>
    /\ SegIdle
    /\ NoDispatch
    /\ RestIdle

\* Lines 110-119
FormatTimestamp ==
    /\ pc = "format"
    /\ timestamp' = format_timestamp_at(fmt_tenths, 10)
    /\ pc' = "formatted"
    /\ UNCHANGED <<est_num_sentences, est_num_words, bracket_target, target_sentences,
                   fmt_tenths, sentences, seg_max_sentences, top_indices>>
    /\ UNCHANGED sumVars
    /\ UNCHANGED segVars
    /\ UNCHANGED dispVars
    /\ UNCHANGED restVars

FmtNext == FormatTimestamp

SpecFmt == FmtInit /\ [][FmtNext]_vars

Formatted == pc = "formatted"

WholeSeconds == fmt_tenths \div 10

\* The number a field's digits spell
RECURSIVE FieldValue(_)
FieldValue(field) ==
    IF field = <<>> THEN 0
    ELSE 10 * FieldValue(SubSeq(field, 1, Len(field) - 1)) + field[Len(field)]

\* The fields are decimal digits; the last two are minutes and seconds within
\* 0..59, and hours, minutes and seconds add up to the whole seconds
FieldsSpellSeconds ==
    LET n == Len(timestamp)
        hours == IF n = 3 THEN FieldValue(timestamp[1]) ELSE 0
        minutes == FieldValue(timestamp[n - 1])
        secs == FieldValue(timestamp[n])
    IN  /\ n = (IF WholeSeconds < 3600 THEN 2 ELSE 3)
        /\ \A k \in 1..n : \A d \in 1..Len(timestamp[k]) : timestamp[k][d] \in 0..9
        /\ minutes \in 0..59
        /\ secs \in 0..59
        /\ hours * 3600 + minutes * 60 + secs = WholeSeconds
        /\ (WholeSeconds = 3725 => timestamp = << <<0, 1>>, <<0, 2>>, <<0, 5>> >>)
        /\ (WholeSeconds = 125 => timestamp = << <<0, 2>>, <<0, 5>> >>)

\* C17 as stated: MM:SS below 3600 seconds and HH:MM:SS from there on, every
\* field exactly two zero-padded digits, minutes and seconds within 0..59,
\* and the fields add up to the whole-second part of the argument.
C17_FormatOriginal ==
    Formatted =>
        /\ FieldsSpellSeconds
        /\ \A k \in 1..Len(timestamp) : Len(timestamp[k]) = 2

\* C17 amended: the same, except that the hours field is zero-padded to at
\* least two digits: it has exactly two below 100 hours and, from 100 hours
\* on, as many as the number of hours has, without a leading zero.
C17_Format ==
    Formatted =>
        /\ FieldsSpellSeconds
        /\ \A k \in 1..Len(timestamp) :
              IF Len(timestamp) = 3 /\ k = 1 /\ WholeSeconds >= 360000
              THEN Len(timestamp[k]) >= 3 /\ timestamp[k][1] # 0
              ELSE Len(timestamp[k]) = 2

\* C17 witness: a time of 100 hours or more and a fraction of a second
C17_Witness ==
    /\ Formatted
    /\ WholeSeconds >= 360000
    /\ fmt_tenths % 10 # 0
    /\ Len(timestamp[1]) = 3

(***************************************************************************)
(* summarize_segment (video_summarizer_api.py 149-176).  A segment is the  *)
(* sequence of its sentences, a sentence is represented by the number of   *)
(* words the filter of line 163 leaves (alphanumeric, no stop word), and   *)
(* the returned text by the indices of its sentences.  Sentence i here is  *)
(* index i-1 in the code, so its position score is 1/i.                    *)
(***************************************************************************)
\* Variant of ExactOrder: the weights are exchanged, 0.4 for the position
\* and 0.6 for the length: 75 * score = 30/i + 3 * min(words, 15)
ExactOrderLengthWeighted(i, n, j, m) ==
    LET left == 30 * j + 3 * Min(n, 15) * i * j
        right == 30 * i + 3 * Min(m, 15) * i * j
    IN  IF left > right THEN 1 ELSE IF left < right THEN 0 - 1 ELSE 0

\* Lines 166-169 in exact arithmetic, times 75:
\* 75 * (0.6 * 1/i + 0.4 * min(words/15, 1)) = 45/i + 2 * min(words, 15).
\* ExactOrder compares sentence i with n words and sentence j with m words:
\* 1 when the first scores higher, 0 - 1 when lower, 0 when equal.
ExactOrder(i, n, j, m) ==
    LET left == 45 * j + 2 * Min(n, 15) * i * j
        right == 45 * i + 2 * Min(m, 15) * i * j
    IN  IF left > right THEN 1 ELSE IF left < right THEN 0 - 1 ELSE 0

\* Python computes the scores in IEEE double precision.  Scores that differ
\* exactly differ by far more than the rounding error and compare the same
\* way; of the scores that are equal exactly, these pairs <<i, n, j, m>>
\* (sentences up to the ninth, 0 to 16 words) come out with sentence i
\* above sentence j by one unit in the last place, and all others equal.
\* E.g. 0.6/5 + 0.4*8/15 = 0.33333333333333337 > 0.3333333333333333 = 0.6/3 + 0.4*5/15.
RoundedAbove ==
    { <<5, 3, 3, 0>>, <<5, 4, 3, 1>>, <<5, 8, 3, 5>>, <<5, 12, 3, 9>>, <<5, 14, 3, 11>>,
      <<9, 5, 3, 0>>, <<9, 6, 3, 1>>, <<9, 7, 3, 2>>, <<9, 12, 3, 7>>, <<9, 14, 3, 9>>,
      <<9, 7, 5, 5>>, <<9, 12, 5, 10>>,
      <<5, 8, 9, 10>>, <<5, 12, 9, 14>> }

\* scores[i] > scores[j] as the code computes it
ScoredAbove(sents, i, j) ==
    \/ ExactOrder(i, sents[i], j, sents[j]) = 1
    \/ <<i, sents[i], j, sents[j]>> \in RoundedAbove

\* Variant of RankSegment: the sort is ascending (reverse=True is missing)
RECURSIVE RankSegmentAscending(_, _)
RankSegmentAscending(sents, S) ==
    IF S = {} THEN <<>>
    ELSE LET best == CHOOSE i \in S :
                       \A j \in S \ {i} :
                          ScoredAbove(sents, j, i) \/ (~ScoredAbove(sents, i, j) /\ i < j)
         IN  <<best>> \o RankSegmentAscending(sents, S \ {best})

\* Line 172: sorted(range(len(scores)), key=score, reverse=True), a stable
\* sort, so equal scores stay in ascending index order
RECURSIVE RankSegment(_, _)
RankSegment(sents, S) ==
    IF S = {} THEN <<>>
    ELSE LET best == CHOOSE i \in S :
                       \A j \in S \ {i} :
                          ScoredAbove(sents, i, j) \/ (~ScoredAbove(sents, j, i) /\ i < j)
         IN  <<best>> \o RankSegment(sents, S \ {best})

\* Lines 151-176: the indices of the sentences of the returned text
summarize_segment(sents, max) ==
    IF Len(sents) <= max
    THEN [i \in 1..Len(sents) |-> i]
    ELSE SortedByIndex(SubSeq(RankSegment(sents, 1..Len(sents)), 1, max))

\* Word counts of the sentences: none, some, the full 15, and more
SegWordSamples == {0, 5, 8, 15, 16}

SumSegInit ==
    /\ pc = "segment"
    /\ sentences \in SeqsUpTo(SegWordSamples, MaxSegSentences)
    /\ seg_max_sentences \in 1..MaxSegKeep
    /\ top_indices = <<>>
    /\ est_num_sentences = 0
    /\ est_num_words = 0
    /\ bracket_target = 0
    /\ target_sentences = 0
    /\ fmt_tenths = 0
    /\ timestamp = <<>>
    /\ text = <<>>
    /\ max_sentences_value = [kind |-> "auto", val |-> 0]
    /\ Idle
    /\ window_size = 0
    /\ transcript_segments = <<>>
    /\ SegIdle
    /\ NoDispatch
    /\ RestIdle

SummarizeSegment ==
    /\ pc = "segment"
    /\ top_indices' = summarize_segment(sentences, seg_max_sentences)
    /\ pc' = "segment_done"
    /\ UNCHANGED <<est_num_sentences, est_num_words, bracket_target, target_sentences,
                   fmt_tenths, timestamp, sentences, seg_max_sentences>>
    /\ UNCHANGED sumVars
    /\ UNCHANGED segVars
    /\ UNCHANGED dispVars
    /\ UNCHANGED restVars

SumSegNext == SummarizeSegment

SpecSumSeg == SumSegInit /\ [][SumSegNext]_vars

SegSummarized == pc = "segment_done"

IsAscending(indices) ==
    \A k \in 1..(Len(indices) - 1) : indices[k] < indices[k + 1]

\* Sentence i is preferred to sentence j by the exact scores: the higher
\* score, and on equal scores the earlier sentence
ExactlyPreferred(i, j) ==
    LET order == ExactOrder(i, sentences[i], j, sentences[j])
    IN  order = 1 \/ (order = 0 /\ i < j)

\* The same by the scores as computed in floating point
ComputedPreferred(i, j) ==
    \/ ScoredAbove(sentences, i, j)
    \/ (~ScoredAbove(sentences, j, i) /\ i < j)

\* C18 as stated: the text is returned unchanged when it has at most
\* max_sentences sentences; otherwise exactly max_sentences sentences are
\* returned in original order, those with the highest score
\* 0.6 * 1/(position+1) + 0.4 * min(words/15, 1), ties going to the earlier.
C18_SegmentOriginal ==
    SegSummarized =>
        IF Len(sentences) <= seg_max_sentences
        THEN top_indices = [i \in 1..Len(sentences) |-> i]
        ELSE /\ Len(top_indices) = seg_max_sentences
             /\ IsAscending(top_indices)
             /\ Range(top_indices) \subseteq 1..Len(sentences)
             /\ \A i \in Range(top_indices) :
                   \A j \in (1..Len(sentences)) \ Range(top_indices) :
                      ExactlyPreferred(i, j)

\* C18 amended: the same with the scores as the code computes them in double
\* precision: the highest computed scores win, and sentences whose computed
\* scores are equal go to the earlier one.
C18_Segment ==
    SegSummarized =>
        IF Len(sentences) <= seg_max_sentences
        THEN top_indices = [i \in 1..Len(sentences) |-> i]
        ELSE /\ Len(top_indices) = seg_max_sentences
             /\ IsAscending(top_indices)
             /\ Range(top_indices) \subseteq 1..Len(sentences)
             /\ \A i \in Range(top_indices) :
                   \A j \in (1..Len(sentences)) \ Range(top_indices) :
                      ComputedPreferred(i, j)

\* C18 witness: a later sentence returned in place of an earlier one of
\* exactly the same score, and the returned sentences are not the first ones
C18_Witness ==
    /\ SegSummarized
    /\ Len(sentences) > seg_max_sentences
    /\ \E i \in Range(top_indices) :
          \E j \in (1..Len(sentences)) \ Range(top_indices) :
             /\ j < i
             /\ ExactOrder(i, sentences[i], j, sentences[j]) = 0

(***************************************************************************)
(* Input errors.                                                           *)
(***************************************************************************)
TextMode == pc \in {"request", "textrank", "score", "strict", "backfill", "emit", "done"}

TranscriptMode == pc \in {"video", "segments", "seg_done", "seg_error"}

\* C19: an empty or whitespace-only text, and an empty or whitespace-only
\* transcript, is answered with an input error, and no summarization, topic
\* detection or segment construction step is performed on it.
C19_InputErrors ==
    /\ (TextMode /\ text = <<>>) =>
          \/ pc = "request"
          \/ /\ pc = "done"
             /\ response = "error400"
             /\ strategy = "none"
             /\ summary = <<>>
             /\ filtered_sentences = <<>>
    /\ (TranscriptMode /\ FullText = <<>>) =>
          \/ pc = "video"
          \/ /\ pc = "seg_error"
             /\ segments = <<>>
             /\ bpos = 0

(***************************************************************************)
(* Requests whose text may itself contain the sentence 'Unable to generate *)
(* summary.': an ordinary five-token sentence to sent_tokenize and to the  *)
(* quality filter.                                                         *)
(***************************************************************************)
UnablePool ==
    { UnableSentence,
      <<"a", "b", "c", ".">>,
      <<"a", "b", "d", ".">>,
      <<"a", "b", "c", "d", ".">>,
      <<"a", ".">> }

UnableTexts ==
    {t \in SeqsUpTo(UnablePool, MaxSents) :
        \A i, j \in 1..Len(t) : i # j => t[i] # t[j]}

UnableInit ==
    /\ pc = "request"
    /\ text \in UnableTexts
    /\ max_sentences_value \in RequestValues
    /\ Idle
    /\ window_size = 0
    /\ transcript_segments = <<>>
    /\ SegIdle
    /\ PureIdle
    /\ LoadedDispatch
    /\ RestIdle

SpecUnable == UnableInit /\ [][Next]_vars

\* C20: when duplicate removal and the quality filter leave no candidate,
\* textrank_summarize reports 'no summary possible' without raising and
\* without scoring or selecting, and what it reports is never what a
\* successfully produced summary (one made of candidates) looks like.
C20_NoSummaryPossible ==
    /\ (Returned /\ FilteredCount = 0)
          => /\ summary = <<UnableSentence>>
             /\ sentence_scores = <<>>
             /\ ranked_items = <<>>
             /\ selected_indices = <<>>
    /\ (Returned /\ FilteredCount >= 1)
          => summary # <<UnableSentence>>

(***************************************************************************)
(* The dispatch of the summarize handler (backend_api.py 508-527) over     *)
(* every method and both values of USE_TRANSFORMER, on a few texts: the    *)
(* empty text, a text of one sentence, a text the quality filter leaves    *)
(* nothing of, and a text of three near-duplicates.                        *)
(***************************************************************************)
DispatchTexts ==
    { <<>>,
      << <<"a", "b", "c", ".">> >>,
      << <<"a", ".">> >>,
      << <<"a", "b", "c", ".">>, <<"a", "b", "d", ".">>, <<"a", "b", "c", "d", ".">> >> }

DispatchInit ==
    /\ pc = "request"
    /\ text \in DispatchTexts
    /\ max_sentences_value \in RequestValues
    /\ Idle
    /\ window_size = 0
    /\ transcript_segments = <<>>
    /\ SegIdle
    /\ PureIdle
    /\ method \in Methods
    /\ USE_TRANSFORMER \in BOOLEAN
    /\ transformer_calls = <<>>
    /\ textrank_calls = <<>>
    /\ RestIdle

SpecDispatch == DispatchInit /\ [][Next]_vars

\* The handler got past its input checks and called a summarizer
Dispatched == pc # "request" /\ response \notin {"error400", "error500"}

\* C21: fallback happens only in the handler.  With method 'transformer' and
\* the model loaded, transformer_summarize is called once, and when it yields
\* no result textrank_summarize is called exactly once with the same text and
\* target and its result is returned; in every other configuration
\* textrank_summarize is called directly and transformer_summarize not at
\* all; no summarizer is ever called a second time.
C21_Fallback ==
    /\ Len(transformer_calls) <= 1
    /\ Len(textrank_calls) <= 1
    /\ ~Dispatched => (transformer_calls = <<>> /\ textrank_calls = <<>>)
    /\ Dispatched =>
          IF method = "transformer" /\ USE_TRANSFORMER
          THEN /\ Len(transformer_calls) = 1
               /\ transformer_calls[1].text = text
               /\ transformer_calls[1].max_sentences = max_sentences
               /\ transformer_calls[1].result = "None" =>
                     /\ textrank_calls = <<[text |-> text, max_sentences |-> max_sentences]>>
                     /\ strategy = "textrank"
               /\ transformer_calls[1].result = "summary" =>
                     /\ textrank_calls = <<>>
                     /\ strategy = "transformer"
                     /\ summary = <<AbstractiveSentence>>
          ELSE /\ transformer_calls = <<>>
               /\ textrank_calls = <<[text |-> text, max_sentences |-> max_sentences]>>
               /\ strategy = "textrank"
    /\ (pc = "done" /\ response = "ok" /\ textrank_calls # <<>>) =>
          Range(summary) \subseteq Range(text) \cup {UnableSentence}

\* C21 witness: the transformer yielded nothing for a request with an
\* explicit target, and the handler answers with what the one fallback call
\* of textrank_summarize selected
C21_Witness ==
    /\ pc = "done"
    /\ response = "ok"
    /\ Len(transformer_calls) = 1
    /\ transformer_calls[1].result = "None"
    /\ Len(textrank_calls) = 1
    /\ textrank_calls[1].max_sentences = Some(2)
    /\ Len(summary) = 2
    /\ Len(filtered_sentences) = 3

(***************************************************************************)
(* The ranked list of textrank_summarize (line 365).                       *)
(***************************************************************************)
\* Ranking ran: the scores exist
Ranked == strategy = "textrank" /\ pc \in {"strict", "backfill", "emit", "done"}
              /\ sentence_scores # <<>>

\* C22: the ranked list the selector walks is a permutation of all candidate
\* indices, its scores never increase along the list, and candidates of
\* equal score appear in ascending document index.
C22_RankedList ==
    Ranked =>
        /\ Len(ranked_items) = FilteredCount
        /\ Range(ranked_items) = 1..FilteredCount
        /\ \A p, q \in 1..Len(ranked_items) :
              p < q =>
                 /\ sentence_scores[ranked_items[p]] >= sentence_scores[ranked_items[q]]
                 /\ sentence_scores[ranked_items[p]] = sentence_scores[ranked_items[q]]
                       => ranked_items[p] < ranked_items[q]

\* C22 witness: three candidates, a later one ranked first on its higher
\* score, the two others tied and in document order
C22_Witness ==
    /\ Ranked
    /\ FilteredCount = 3
    /\ ranked_items = <<3, 1, 2>>
    /\ sentence_scores[3] > sentence_scores[1]
    /\ sentence_scores[1] = sentence_scores[2]

(***************************************************************************)
(* The position scores of calculate_sentence_importance (backend_api.py    *)
(* 181-195), in tenths.  i is the code's 0-based index.  i < min(5,        *)
(* n_sentences * 0.1) is i < 5 and 10 * i < n_sentences: the float product *)
(* rounds to the other side of no integer i for any n_sentences below 200. *)
(***************************************************************************)
\* Variant of PositionScore: the near-end bracket starts one sentence earlier
PositionScoreFromFourthLast(i, n) ==
    IF i = 0 THEN 30
    ELSE IF i = 1 THEN 20
    ELSE IF i < 5 /\ 10 * i < n THEN 15
    ELSE IF i >= n - 1 THEN 18
    ELSE IF i >= n - 4 THEN 13
    ELSE 10

PositionScore(i, n) ==
    IF i = 0 THEN 30
    ELSE IF i = 1 THEN 20
    ELSE IF i < 5 /\ 10 * i < n THEN 15
    ELSE IF i >= n - 1 THEN 18
    ELSE IF i >= n - 3 THEN 13
    ELSE 10

PosInit ==
    /\ pc = "position"
    /\ n_sentences \in 1..MaxPosSentences
    /\ position_scores = <<>>
    /\ text = <<>>
    /\ max_sentences_value = [kind |-> "auto", val |-> 0]
    /\ Idle
    /\ window_size = 0
    /\ transcript_segments = <<>>
    /\ SegIdle
    /\ PureIdle
    /\ NoDispatch
    /\ CenIdle
    /\ SimIdle
    /\ RateIdle

\* Lines 182-195: one iteration of the loop over range(n_sentences)
PositionStep ==
    /\ pc = "position"
    /\ Len(position_scores) < n_sentences
    /\ position_scores' =
          Append(position_scores, PositionScore(Len(position_scores), n_sentences))
    /\ UNCHANGED <<pc, n_sentences>>
    /\ UNCHANGED sumVars
    /\ UNCHANGED segVars
    /\ UNCHANGED pureVars
    /\ UNCHANGED dispVars
    /\ UNCHANGED cenVars
    /\ UNCHANGED simVars
    /\ UNCHANGED rateVars

\* The loop is over
PositionDone ==
    /\ pc = "position"
    /\ Len(position_scores) = n_sentences
    /\ pc' = "positioned"
    /\ UNCHANGED posVars
    /\ UNCHANGED sumVars
    /\ UNCHANGED segVars
    /\ UNCHANGED pureVars
    /\ UNCHANGED dispVars
    /\ UNCHANGED cenVars
    /\ UNCHANGED simVars
    /\ UNCHANGED rateVars

PosNext == PositionStep \/ PositionDone

SpecPos == PosInit /\ [][PosNext]_vars

Positioned == pc = "positioned"

\* Sentence i (0-based) lies within the first 10% of n sentences, and
\* before index 5
Early(i, n) == i < 5 /\ 10 * i < n

\* C23 as stated, every sentence taking the first bracket of the list that
\* applies: 3.0 for the first sentence, 2.0 for the second, 1.5 within the
\* first 10% (before index 5), 1.8 for the last, 1.3 for each of the three
\* sentences before the last, 1.0 for all others.
C23_PositionOriginal ==
    Positioned =>
        \A i \in 0..(n_sentences - 1) :
            LET score == position_scores[i + 1]
                late == i >= 2 /\ ~Early(i, n_sentences)
            IN  /\ i = 0 => score = 30
                /\ i = 1 => score = 20
                /\ (i >= 2 /\ Early(i, n_sentences)) => score = 15
                /\ (late /\ i = n_sentences - 1) => score = 18
                /\ (late /\ n_sentences - 4 <= i /\ i <= n_sentences - 2) => score = 13
                /\ (late /\ i < n_sentences - 4) => score = 10

\* C23 amended: the same with 1.3 for each of the two sentences before the
\* last.
C23_Position ==
    Positioned =>
        \A i \in 0..(n_sentences - 1) :
            LET score == position_scores[i + 1]
                late == i >= 2 /\ ~Early(i, n_sentences)
            IN  /\ i = 0 => score = 30
                /\ i = 1 => score = 20
                /\ (i >= 2 /\ Early(i, n_sentences)) => score = 15
                /\ (late /\ i = n_sentences - 1) => score = 18
                /\ (late /\ n_sentences - 3 <= i /\ i <= n_sentences - 2) => score = 13
                /\ (late /\ i < n_sentences - 3) => score = 10

\* C23 witness: more than 50 sentences, so that the first-10% bracket ends
\* at index 5, and all six weights occur
C23_Witness ==
    /\ Positioned
    /\ n_sentences > 50
    /\ position_scores[5] = 15
    /\ position_scores[6] = 10
    /\ position_scores[n_sentences - 3] = 10
    /\ position_scores[n_sentences - 2] = 13
    /\ position_scores[n_sentences - 1] = 13
    /\ position_scores[n_sentences] = 18

(***************************************************************************)
(* The centrality scores of calculate_sentence_importance (backend_api.py  *)
(* 258-275).  The floats are fixed-point integers here: a similarity is a  *)
(* number of halves, the power-iteration vector is in units of             *)
(* 1/CentralityScale, a unit that 1/n and 0.15/n are whole multiples of    *)
(* for every n the model reaches, and the centrality scores are            *)
(* thousandths.  A quotient is truncated where the float is rounded.       *)
(***************************************************************************)
CentralityScale == 1200000

\* Line 272: range(10)
CentralityRounds == 10

\* The similarities a matrix is filled with: 0, 0.5 and 1.0
SimLevels == {0, 1, 2}

\* The matrices build_similarity_matrix can hand over: square, zero on the
\* diagonal, the same value at (i, j) and (j, i)
SymmetricMatrices(n) ==
    LET pairs == {q \in (1..n) \X (1..n) : q[1] < q[2]}
    IN  { [i \in 1..n |-> [j \in 1..n |->
              IF i = j THEN 0
              ELSE IF i < j THEN f[<<i, j>>] ELSE f[<<j, i>>]]] :
          f \in [pairs -> SimLevels] }

RECURSIVE SumSeq(_)
SumSeq(s) == IF s = <<>> THEN 0 ELSE Head(s) + SumSeq(Tail(s))

RECURSIVE MaxSeq(_)
MaxSeq(s) == IF s = <<>> THEN 0 ELSE Max(Head(s), MaxSeq(Tail(s)))

\* similarity_matrix.max()
MatrixMax(m) == MaxSeq([i \in 1..Len(m) |-> MaxSeq(m[i])])

\* Lines 266-267: the row sums, a sum of 0 replaced by 1 (here: one half)
RowSums(m) ==
    [i \in 1..Len(m) |-> IF SumSeq(m[i]) = 0 THEN 1 ELSE SumSeq(m[i])]

\* Line 273: 0.85 * norm_matrix.T.dot(centrality) + 0.15 / n_sentences, with
\* norm_matrix[j][i] = similarity_matrix[j][i] / row_sums[j] (line 268)
DampedUpdate(m, c) ==
    LET n == Len(m)
        sums == RowSums(m)
    IN  [i \in 1..n |->
            (85 * SumSeq([j \in 1..n |-> (m[j][i] * c[j]) \div sums[j]])) \div 100
                + (15 * CentralityScale) \div (100 * n)]

\* Variant of NormalizeByMax: the vector is divided by its sum
NormalizeBySum(c) ==
    IF MaxSeq(c) > 0
    THEN [i \in 1..Len(c) |-> (c[i] * 1000) \div SumSeq(c)]
    ELSE c

\* Line 275: centrality / centrality.max() if centrality.max() > 0 else centrality
NormalizeByMax(c) ==
    IF MaxSeq(c) > 0
    THEN [i \in 1..Len(c) |-> (c[i] * 1000) \div MaxSeq(c)]
    ELSE c

CenInit ==
    /\ pc = "centrality"
    /\ similarity_matrix \in UNION {SymmetricMatrices(n) : n \in 1..MaxCenSentences}
    /\ centrality = <<>>
    /\ rounds = 0
    /\ centrality_scores = <<>>
    /\ text = <<>>
    /\ max_sentences_value = [kind |-> "auto", val |-> 0]
    /\ Idle
    /\ window_size = 0
    /\ transcript_segments = <<>>
    /\ SegIdle
    /\ PureIdle
    /\ NoDispatch
    /\ PosIdle
    /\ SimIdle
    /\ RateIdle

\* Lines 263-271: the scores start as zeros; with a positive similarity the
\* power iteration starts from the uniform vector, without one the zeros are
\* the centrality scores
CentralityStart ==
    /\ pc = "centrality"
    /\ centrality_scores' = [i \in 1..Len(similarity_matrix) |-> 0]
    /\ IF MatrixMax(similarity_matrix) > 0
       THEN /\ centrality' = [i \in 1..Len(similarity_matrix) |->
                                 CentralityScale \div Len(similarity_matrix)]
            /\ pc' = "iterate"
       ELSE /\ pc' = "central"
            /\ UNCHANGED centrality
    /\ UNCHANGED <<similarity_matrix, rounds>>
    /\ UNCHANGED <<sumVars, segVars, pureVars, dispVars, posVars, simVars, rateVars>>

\* Lines 272-273: one round of the loop over range(10)
CentralityRound ==
    /\ pc = "iterate"
    /\ rounds < CentralityRounds
    /\ centrality' = DampedUpdate(similarity_matrix, centrality)
    /\ rounds' = rounds + 1
    /\ UNCHANGED <<pc, similarity_matrix, centrality_scores>>
    /\ UNCHANGED <<sumVars, segVars, pureVars, dispVars, posVars, simVars, rateVars>>

\* Line 275, after the loop
CentralityNormalize ==
    /\ pc = "iterate"
    /\ rounds = CentralityRounds
    /\ centrality_scores' = NormalizeByMax(centrality)
    /\ pc' = "central"
    /\ UNCHANGED <<similarity_matrix, centrality, rounds>>
    /\ UNCHANGED <<sumVars, segVars, pureVars, dispVars, posVars, simVars, rateVars>>

CenNext == CentralityStart \/ CentralityRound \/ CentralityNormalize

SpecCen == CenInit /\ [][CenNext]_vars

CentralityDone == pc = "central"

\* Sentence i has no positive similarity to any other sentence
ZeroRow(i) == SumSeq(similarity_matrix[i]) = 0

\* The centrality component: ten rounds done, the largest entry 1.0, every
\* entry in (0, 1], a sentence with a zero row included
CentralityNormalized ==
    /\ rounds = CentralityRounds
    /\ Len(centrality_scores) = Len(similarity_matrix)
    /\ MaxSeq(centrality_scores) = 1000
    /\ \A i \in 1..Len(centrality_scores) :
          /\ 0 < centrality_scores[i]
          /\ centrality_scores[i] <= 1000
          /\ ZeroRow(i) =>
                centrality[i] = (15 * CentralityScale) \div (100 * Len(similarity_matrix))

\* C24 as stated: for every non-empty candidate list the centrality
\* component is the outcome of exactly 10 damped rounds from the uniform
\* start divided by its maximum, its largest entry 1.0 and every entry in
\* (0, 1]; zero rows stay zero rows and cause no fault.
C24_CentralityOriginal == CentralityDone => CentralityNormalized

\* C24 amended: the same for every candidate list whose similarity matrix
\* has a positive entry; for a matrix of zeros (a single candidate, or
\* candidates that share no word) no round is run and every centrality
\* score is 0.
C24_Centrality ==
    CentralityDone =>
        IF MatrixMax(similarity_matrix) > 0
        THEN CentralityNormalized
        ELSE /\ rounds = 0
             /\ centrality_scores = [i \in 1..Len(similarity_matrix) |-> 0]

\* C24 witness: three candidates, the third with a zero row, the first two
\* similar to each other: the third ends strictly between 0 and 1
C24_Witness ==
    /\ CentralityDone
    /\ Len(similarity_matrix) = 3
    /\ ZeroRow(3)
    /\ rounds = CentralityRounds
    /\ centrality_scores[1] = 1000
    /\ 0 < centrality_scores[3]
    /\ centrality_scores[3] < 1000

(***************************************************************************)
(* sentence_similarity and build_similarity_matrix (backend_api.py         *)
(* 123-157).  A similarity is kept as the three integers the float is      *)
(* computed from: the dot product of the two count vectors and their       *)
(* squared lengths, the smaller one first (the float product of the two    *)
(* square roots does not depend on their order).  The float itself is      *)
(* 1 - (1 - dot / (sqrt(uu) * sqrt(vv))), the inner difference being       *)
(* nltk's cosine_distance.                                                 *)
(***************************************************************************)
StopWords == {"the"}

Vocabulary == <<"cat", "mat", "sat", "the">>

\* The token lists of at most MaxSimTokens tokens; the order of the tokens
\* has no part in the similarity, so they are listed in alphabetical order
TokenLists ==
    UNION { { [k \in 1..m |-> Vocabulary[f[k]]] :
                f \in {g \in [1..m -> 1..Len(Vocabulary)] :
                          \A k \in 1..(m - 1) : g[k] <= g[k + 1]} } :
            m \in 0..MaxSimTokens }

\* Line 128 and 129: the words left after the stopword filter
WithoutStopWords(sent) == SelectSeq(sent, LAMBDA w : w \notin StopWords)

\* Lines 131-141: the entry of a word in the count vector of a sentence
Count(sent, w) == Cardinality({k \in 1..Len(sent) : sent[k] = w})

\* numpy.dot of the two count vectors
Dot(sent1, sent2) ==
    SumSeq([k \in 1..Len(Vocabulary) |->
               Count(sent1, Vocabulary[k]) * Count(sent2, Vocabulary[k])])

\* The value 0: np.zeros, the return of line 144, and the float 1 - (1 - 0.0)
ZeroSimilarity == [dot |-> 0, uu |-> 0, vv |-> 0]

\* Lines 123-146
sentence_similarity(sent1, sent2) ==
    LET s1 == WithoutStopWords(sent1)
        s2 == WithoutStopWords(sent2)
    IN  IF Len(s1) = 0 \/ Len(s2) = 0 \/ Dot(s1, s2) = 0
        THEN ZeroSimilarity
        ELSE [dot |-> Dot(s1, s2),
              uu |-> Min(Dot(s1, s1), Dot(s2, s2)),
              vv |-> Max(Dot(s1, s1), Dot(s2, s2))]

\* Lines 148-157
build_similarity_matrix(sents) ==
    [i \in 1..Len(sents) |-> [j \in 1..Len(sents) |->
        IF i # j THEN sentence_similarity(sents[i], sents[j]) ELSE ZeroSimilarity]]

\* The similarities whose float comes out as 1.0000000000000002: parallel
\* count vectors for which sqrt(uu) * sqrt(vv) rounds below dot (all of them
\* with uu and vv up to 25; no float comes out below 0)
RoundedAboveOne ==
    { [dot |-> 3, uu |-> 3, vv |-> 3], [dot |-> 6, uu |-> 3, vv |-> 12],
      [dot |-> 6, uu |-> 6, vv |-> 6], [dot |-> 12, uu |-> 6, vv |-> 24],
      [dot |-> 12, uu |-> 12, vv |-> 12], [dot |-> 13, uu |-> 13, vv |-> 13],
      [dot |-> 18, uu |-> 18, vv |-> 18], [dot |-> 23, uu |-> 23, vv |-> 23],
      [dot |-> 24, uu |-> 24, vv |-> 24] }

\* The float of a similarity lies in [0, 1]
InUnitInterval(e) ==
    \/ e = ZeroSimilarity
    \/ /\ e.dot > 0
       /\ e.dot * e.dot <= e.uu * e.vv
       /\ e \notin RoundedAboveOne

SimInit ==
    /\ pc = "similarity"
    /\ sim_sentences \in SeqsUpTo(TokenLists, MaxSimSentences)
    /\ sim_matrix = <<>>
    /\ text = <<>>
    /\ max_sentences_value = [kind |-> "auto", val |-> 0]
    /\ Idle
    /\ window_size = 0
    /\ transcript_segments = <<>>
    /\ SegIdle
    /\ PureIdle
    /\ NoDispatch
    /\ PosIdle
    /\ CenIdle
    /\ RateIdle

BuildSimilarityMatrix ==
    /\ pc = "similarity"
    /\ sim_matrix' = build_similarity_matrix(sim_sentences)
    /\ pc' = "built"
    /\ UNCHANGED sim_sentences
    /\ UNCHANGED <<sumVars, segVars, pureVars, dispVars, posVars, cenVars, rateVars>>

SimNext == BuildSimilarityMatrix

SpecSim == SimInit /\ [][SimNext]_vars

Built == pc = "built"

\* The matrix is N x N, zero on the diagonal, symmetric, and zero wherever
\* one of the two sentences has no word left after the stopword filter
MatrixShape ==
    LET n == Len(sim_sentences)
    IN  /\ Len(sim_matrix) = n
        /\ \A i \in 1..n :
              /\ Len(sim_matrix[i]) = n
              /\ sim_matrix[i][i] = ZeroSimilarity
              /\ \A j \in 1..n :
                    /\ sim_matrix[i][j] = sim_matrix[j][i]
                    /\ (WithoutStopWords(sim_sentences[i]) = <<>>
                           \/ WithoutStopWords(sim_sentences[j]) = <<>>)
                          => sim_matrix[i][j] = ZeroSimilarity

\* C25: for every list of N tokenized sentences build_similarity_matrix
\* yields an N x N matrix with a zero diagonal, equal entries at (i, j) and
\* (j, i), every entry in [0, 1], and a zero entry wherever one of the two
\* sentences has no word left after the stopword filter.
C25_SimilarityMatrix ==
    Built =>
        /\ MatrixShape
        /\ \A i, j \in 1..Len(sim_matrix) : InUnitInterval(sim_matrix[i][j])

(***************************************************************************)
(* check_rate_limit (backend_validation.py 193-221), one call after the    *)
(* other.  Time is counted in clock ticks; time.time() never goes back.    *)
(***************************************************************************)
\* The limit and window arguments of the calls (defaults 100 and 60): none,
\* one or two requests per window of one or two clock ticks
LimitSamples == {0, 1, 2}

WindowSamples == {1, 2}

\* request_counts.get(ip_address, [])
Get(counts, ip_address) ==
    IF ip_address \in DOMAIN counts THEN counts[ip_address] ELSE <<>>

\* request_counts[ip_address] = value
Put(counts, ip_address, value) ==
    [c \in DOMAIN counts \cup {ip_address} |->
        IF c = ip_address THEN value ELSE counts[c]]

\* Lines 207-210: the list comprehension of the clean-up
Pruned(timestamps, current_time, w) ==
    SelectSeq(timestamps, LAMBDA stamp : current_time - stamp < w)

\* Variant of LimitExceeded: strict comparison
LimitExceededStrict(count, lim) == count > lim

\* Line 213
LimitExceeded(count, lim) == count >= lim

RateInit ==
    /\ pc = "rate"
    /\ request_counts = [c \in {} |-> <<>>]
    /\ limit \in LimitSamples
    /\ window \in WindowSamples
    /\ clock = 0
    /\ accepted = [c \in Clients |-> <<>>]
    /\ calls = [t \in Threads |-> NoCall]
    /\ text = <<>>
    /\ max_sentences_value = [kind |-> "auto", val |-> 0]
    /\ Idle
    /\ window_size = 0
    /\ transcript_segments = <<>>
    /\ SegIdle
    /\ PureIdle
    /\ NoDispatch
    /\ PosIdle
    /\ CenIdle
    /\ SimIdle

\* time.time() moves on between two calls
Tick ==
    /\ pc \in {"rate", "race"}
    /\ clock < MaxClock
    /\ clock' = clock + 1
    /\ UNCHANGED <<pc, request_counts, limit, window, accepted, calls>>
    /\ UNCHANGED <<sumVars, segVars, pureVars, dispVars, posVars, cenVars, simVars>>

\* Lines 196-221: one whole call, for any client
CheckRateLimit ==
    /\ pc = "rate"
    /\ \E ip_address \in Clients :
          LET current_time == clock
              kept == Pruned(Get(request_counts, ip_address), current_time, window)
              cleaned == Put(request_counts, ip_address, kept)
          IN  IF LimitExceeded(Len(Get(cleaned, ip_address)), limit)
              THEN /\ request_counts' = cleaned
                   /\ calls' = [calls EXCEPT !["t1"] =
                          [at |-> "returned", ip_address |-> ip_address,
                           current_time |-> current_time, pruned |-> kept,
                           ok |-> FALSE, n |-> 0]]
                   /\ UNCHANGED accepted
              ELSE /\ request_counts' =
                          Put(cleaned, ip_address, Append(kept, current_time))
                   /\ calls' = [calls EXCEPT !["t1"] =
                          [at |-> "returned", ip_address |-> ip_address,
                           current_time |-> current_time, pruned |-> kept,
                           ok |-> TRUE, n |-> 0]]
                   /\ accepted' = [accepted EXCEPT ![ip_address] =
                                     Append(@, current_time)]
    /\ UNCHANGED <<pc, limit, window, clock>>
    /\ UNCHANGED <<sumVars, segVars, pureVars, dispVars, posVars, cenVars, simVars>>

RateNext == Tick \/ CheckRateLimit

SpecRate == RateInit /\ [][RateNext]_vars

\* The accepted calls of client c with a timestamp in [from, from + window)
AcceptedWithin(c, from) ==
    {k \in 1..Len(accepted[c]) :
        from <= accepted[c][k] /\ accepted[c][k] < from + window}

\* No window holds more than limit accepted calls of one client
WindowRespected ==
    \A c \in Clients : \A from \in (0 - window)..MaxClock :
        Cardinality(AcceptedWithin(c, from)) <= limit

\* What one call may change: the record of its own client only, and no
\* timestamp is added to it when the call is rejected
CallFrame ==
    calls' # calls =>
        LET call == calls'["t1"]
        IN  /\ \A c \in DOMAIN request_counts \ {call.ip_address} :
                  /\ c \in DOMAIN request_counts'
                  /\ request_counts'[c] = request_counts[c]
            /\ DOMAIN request_counts' \subseteq DOMAIN request_counts \cup {call.ip_address}
            /\ \A c \in Clients \ {call.ip_address} : accepted'[c] = accepted[c]
            /\ ~call.ok =>
                  /\ accepted' = accepted
                  /\ request_counts'[call.ip_address] =
                        Pruned(Get(request_counts, call.ip_address), clock, window)
            /\ call.ok =>
                  request_counts'[call.ip_address] =
                     Append(Pruned(Get(request_counts, call.ip_address), clock, window),
                            clock)

\* C26: with a clock that never goes back, no client ever has more than
\* limit accepted calls with timestamps inside one interval of length
\* window (from <= timestamp < from + window); a rejected call records no
\* timestamp; a call for one client leaves the record of every other client
\* as it was.
C26_RateLimit == []WindowRespected /\ [][CallFrame]_vars

\* C26 witness: a client was accepted limit times, then rejected within the
\* window while the other client's record stayed, and accepted again
\* exactly window ticks after its first accepted call
C26_Witness ==
    /\ pc = "rate"
    /\ limit = 2
    /\ window = 2
    /\ accepted["10.0.0.1"] = <<0, 1, 2>>
    /\ accepted["10.0.0.2"] = <<1>>
    /\ calls["t1"].at = "returned"
    /\ calls["t1"].ip_address = "10.0.0.1"
    /\ ~calls["t1"].ok
    /\ clock = 3

(***************************************************************************)
(* check_rate_limit called from several threads of one process.  The       *)
(* interpreter can switch threads between any two bytecodes, so a call is  *)
(* the steps: read the clock (line 204), evaluate the list comprehension   *)
(* (lines 207-210), store it under the client's key (line 207), test the   *)
(* limit (line 213), append (lines 217-219).                               *)
(***************************************************************************)
RaceInit ==
    /\ pc = "race"
    /\ request_counts = [c \in {} |-> <<>>]
    /\ limit \in LimitSamples
    /\ window \in WindowSamples
    /\ clock = 0
    /\ accepted = [c \in Clients |-> <<>>]
    /\ calls = [t \in Threads |-> NoCall]
    /\ text = <<>>
    /\ max_sentences_value = [kind |-> "auto", val |-> 0]
    /\ Idle
    /\ window_size = 0
    /\ transcript_segments = <<>>
    /\ SegIdle
    /\ PureIdle
    /\ NoDispatch
    /\ PosIdle
    /\ CenIdle
    /\ SimIdle

\* What a step of one thread leaves alone
RaceFrame ==
    /\ UNCHANGED <<pc, limit, window, clock>>
    /\ UNCHANGED <<sumVars, segVars, pureVars, dispVars, posVars, cenVars, simVars>>

\* Line 204: current_time = time.time()
RateBegin(t) ==
    /\ pc = "race"
    /\ calls[t].at \in {"idle", "returned"}
    /\ calls[t].n < MaxRaceCalls
    /\ \E ip_address \in Clients :
          calls' = [calls EXCEPT ![t] =
                      [at |-> "prune", ip_address |-> ip_address, current_time |-> clock,
                       pruned |-> <<>>, ok |-> TRUE, n |-> calls[t].n + 1]]
    /\ UNCHANGED <<request_counts, accepted>>
    /\ RaceFrame

\* Lines 207-210: the right-hand side, the list comprehension
RatePruneRead(t) ==
    /\ pc = "race"
    /\ calls[t].at = "prune"
    /\ calls' = [calls EXCEPT ![t].at = "store",
                              ![t].pruned = Pruned(Get(request_counts, calls[t].ip_address),
                                                   calls[t].current_time, window)]
    /\ UNCHANGED <<request_counts, accepted>>
    /\ RaceFrame

\* Line 207: the assignment to request_counts[ip_address]
RatePruneStore(t) ==
    /\ pc = "race"
    /\ calls[t].at = "store"
    /\ request_counts' = Put(request_counts, calls[t].ip_address, calls[t].pruned)
    /\ calls' = [calls EXCEPT ![t].at = "check"]
    /\ UNCHANGED accepted
    /\ RaceFrame

\* Lines 213-214
RateCheck(t) ==
    /\ pc = "race"
    /\ calls[t].at = "check"
    /\ IF LimitExceeded(Len(Get(request_counts, calls[t].ip_address)), limit)
       THEN calls' = [calls EXCEPT ![t].at = "returned", ![t].ok = FALSE]
       ELSE calls' = [calls EXCEPT ![t].at = "append"]
    /\ UNCHANGED <<request_counts, accepted>>
    /\ RaceFrame

\* Lines 217-221
RateAppend(t) ==
    /\ pc = "race"
    /\ calls[t].at = "append"
    /\ request_counts' =
          Put(request_counts, calls[t].ip_address,
              Append(Get(request_counts, calls[t].ip_address), calls[t].current_time))
    /\ accepted' = [accepted EXCEPT ![calls[t].ip_address] =
                      Append(@, calls[t].current_time)]
    /\ calls' = [calls EXCEPT ![t].at = "returned", ![t].ok = TRUE]
    /\ RaceFrame

RaceNext ==
    \/ Tick
    \/ \E t \in Threads :
          \/ RateBegin(t)
          \/ RatePruneRead(t)
          \/ RatePruneStore(t)
          \/ RateCheck(t)
          \/ RateAppend(t)

SpecRace == RaceInit /\ [][RaceNext]_vars

\* How often timestamp ts occurs in a list
Occurrences(timestamps, ts) ==
    Cardinality({k \in 1..Len(timestamps) : timestamps[k] = ts})

\* Every accepted timestamp that is not yet window old is still recorded
NoTimestampLost ==
    \A c \in Clients : \A ts \in 0..MaxClock :
        clock - ts < window =>
            Occurrences(Get(request_counts, c), ts) >= Occurrences(accepted[c], ts)

\* C27: when calls of check_rate_limit for one client interleave on the
\* shared request_counts dictionary, no accepted call's timestamp is lost
\* and no window holds more than limit accepted calls.
C27_InterleavedCalls == NoTimestampLost /\ WindowRespected

(***************************************************************************)
(* The size of the segments built from detected boundaries.                *)
(***************************************************************************)
\* The entries a range holds
SpanOf(range) == range[2] - range[1]

\* C28: whenever detect_topic_changes returns at least one boundary, every
\* segment create_segments_with_topics builds from the boundaries spans at
\* least window_size transcript entries: the first boundary is at index
\* window_size or later, the last one before length - window_size, and
\* consecutive boundaries are at least window_size apart.
C28_SegmentSpan ==
    (Detected /\ topic_change_indices # <<>>) =>
        /\ \A k \in 1..Len(ranges) : SpanOf(ranges[k]) >= window_size
        /\ topic_change_indices[1] >= window_size
        /\ topic_change_indices[Len(topic_change_indices)] < EntryCount - window_size
        /\ \A k \in 1..(Len(topic_change_indices) - 1) :
              topic_change_indices[k + 1] - topic_change_indices[k] >= window_size

\* C28 witness: three segments built around two boundaries with window
\* size 2, the first two of exactly two entries
C28_Witness ==
    /\ SegmentsBuilt
    /\ window_size = 2
    /\ Len(topic_change_indices) = 2
    /\ Len(ranges) = 3
    /\ SpanOf(ranges[1]) = 2
    /\ SpanOf(ranges[2]) = 2
    /\ SpanOf(ranges[3]) > 2

(***************************************************************************)
(* What the selection of textrank_summarize never gives up.                *)
(***************************************************************************)
\* s is a prefix of t
IsPrefix(s, t) == Len(s) <= Len(t) /\ SubSeq(t, 1, Len(s)) = s

\* The strict pass is over
StrictPassed == strategy = "textrank" /\ pc \in {"backfill", "emit", "done"}
                    /\ sentence_scores # <<>>

\* C29: whenever ranking runs with a target of at least 1, the
\* highest-ranked candidate is part of the output and every sentence the
\* strict pass admitted is still in the final output: backfill only appends
\* to the selection.
C29_SelectionKept ==
    (ts_max_sentences >= 1) =>
        /\ (pc = "strict" /\ pos > 1) =>
              /\ selected_indices # <<>>
              /\ selected_indices[1] = ranked_items[1]
        /\ StrictPassed =>
              /\ strict_selected # <<>>
              /\ strict_selected[1] = ranked_items[1]
              /\ IsPrefix(strict_selected, selected_indices)
        /\ (Returned /\ Ranked) =>
              /\ filtered_sentences[ranked_items[1]] \in Range(summary)
              /\ \A k \in 1..Len(strict_selected) :
                    filtered_sentences[strict_selected[k]] \in Range(summary)

\* C29 witness: the strict pass admitted only the highest-ranked candidate,
\* which is not the first sentence, backfill appended a second one, and
\* both are in the output
C29_Witness ==
    /\ Returned
    /\ Ranked
    /\ ts_max_sentences = 2
    /\ Len(strict_selected) = 1
    /\ strict_selected[1] > 1
    /\ Len(selected_indices) = 2
    /\ Len(summary) = 2
    /\ filtered_sentences[ranked_items[1]] \in Range(summary)

(***************************************************************************)
(* The first sentence of a segment in the output of summarize_segment.     *)
(***************************************************************************)
\* summarize_segment had to choose: the segment has more sentences than
\* max_sentences
SegmentCut == SegSummarized /\ Len(sentences) > seg_max_sentences

\* C30: for max_sentences >= 2 and every segment with more sentences than
\* max_sentences, the output of summarize_segment contains the first
\* sentence: its score is at least 0.6 (that of a first sentence without
\* scored words), no sentence at position 2 or later (the third sentence
\* onwards) scores above 0.6, exactly or as computed, and ties go to the
\* earlier sentence.
C30_FirstSentenceKept ==
    (SegmentCut /\ seg_max_sentences >= 2) =>
        /\ 1 \in Range(top_indices)
        /\ ExactOrder(1, sentences[1], 1, 0) >= 0
        /\ \A i \in 3..Len(sentences) :
              /\ ExactOrder(i, sentences[i], 1, 0) <= 0
              /\ ~ScoredAbove(sentences, i, 1)
              /\ ComputedPreferred(1, i)

\* C30 witness: the first sentence has no scored word, the second and the
\* third have 15 or more; the second scores 0.7, the third ties the first
\* at 0.6, and the first and the second are returned
C30_Witness ==
    /\ SegmentCut
    /\ seg_max_sentences = 2
    /\ sentences[1] = 0
    /\ sentences[2] >= 15
    /\ sentences[3] >= 15
    /\ ExactOrder(3, sentences[3], 1, sentences[1]) = 0
    /\ ExactOrder(2, sentences[2], 1, sentences[1]) = 1
    /\ top_indices = <<1, 2>>

====
